---------------------------- MODULE Spec2Model ----------------------------
(***************************************************************************)
(* A model of the cellular info API (src/cell/src/u_cell_info.c): the      *)
(* refresh of the radio parameters, the getters of the cached snapshot,    *)
(* the identity string readers and the UTC time reader, called from        *)
(* several threads and serialised by gUCellPrivateMutex.                   *)
(***************************************************************************)
EXTENDS Integers, Sequences, FiniteSets, TLC

(***************************************************************************)
(* Bounds of the model.                                                    *)
(***************************************************************************)
\* Number of threads calling the API.
NumThreads == 2
\* The decoders are applied to every code in -MaxCode .. MaxCode.
MaxCode == 260

Threads == 1 .. NumThreads
\* The handles of the two open instances; BadHandle resolves to no instance.
Handles == {"hA", "hB"}
BadHandle == "hX"
AllHandles == Handles \cup {BadHandle}

(***************************************************************************)
(* Error codes (u_error_common.h, u_cell.h).                               *)
(***************************************************************************)
U_ERROR_COMMON_SUCCESS == 0
U_ERROR_COMMON_UNKNOWN == -1
U_ERROR_COMMON_NOT_INITIALISED == -2
U_ERROR_COMMON_INVALID_PARAMETER == -5
U_ERROR_COMMON_TIMEOUT == -9
U_ERROR_COMMON_DEVICE_ERROR == -10
U_CELL_ERROR_AT == -256
U_CELL_ERROR_NOT_REGISTERED == -259
U_CELL_ERROR_VALUE_OUT_OF_RANGE == -265
INT_MAX == 2147483647

\* The module types and the macro U_CELL_PRIVATE_MODULE_IS_SARA_R4().
ModuleTypes == {"SARA_U201", "SARA_R410M_02B", "SARA_R5"}
IsSaraR4(moduleType) == moduleType = "SARA_R410M_02B"
\* The two open instances: hA is a SARA-R5 or a SARA-R4, hB a SARA-U201.
ModuleAssignments ==
    { [hA |-> "SARA_R5", hB |-> "SARA_U201"],
      [hA |-> "SARA_R410M_02B", hB |-> "SARA_U201"] }
\* The radio access technologies and the macro U_CELL_PRIVATE_RAT_IS_EUTRAN().
Rats == {"GSM_GPRS_EGPRS", "CATM1", "NB1"}
RatIsEutran(rat) == rat \in {"CATM1", "NB1"}

(***************************************************************************)
(* Pure helpers.                                                           *)
(***************************************************************************)
\* Integer division of C: truncation toward zero (b > 0).
CDiv(a, b) == IF a >= 0 THEN a \div b ELSE -((-a) \div b)

gRssiConvertLte ==
    << -118, -115, -113, -110, -108, -105, -103, -100,
       -98,  -95,  -93,  -90,  -88,  -85,  -83,  -80,
       -78,  -76,  -74,  -73,  -71,  -69,  -68,  -65,
       -63,  -61,  -60,  -59,  -58,  -55,  -53,  -48 >>

\* A seeded fault of rsrpToDbm: the upper limit of the valid codes is lost.
rsrpToDbmNoUpper(rsrp) ==
    IF rsrp >= 0
      THEN (IF rsrp - (97 + 44) < -141 THEN -141 ELSE rsrp - (97 + 44))
      ELSE 0

rsrpToDbm(rsrp) ==
    IF (rsrp >= 0) /\ (rsrp <= 97)
      THEN (IF rsrp - (97 + 44) < -141 THEN -141 ELSE rsrp - (97 + 44))
      ELSE 0

\* A seeded fault of rsrqToDb: the division rounds down, not toward zero.
rsrqToDbFloor(rsrq) ==
    IF (rsrq >= 0) /\ (rsrq <= 34)
      THEN (IF (rsrq - (34 + 6)) \div 2 < -19 THEN -19
                                              ELSE (rsrq - (34 + 6)) \div 2)
      ELSE 0

rsrqToDb(rsrq) ==
    IF (rsrq >= 0) /\ (rsrq <= 34)
      THEN (IF CDiv(rsrq - (34 + 6), 2) < -19 THEN -19
                                              ELSE CDiv(rsrq - (34 + 6), 2))
      ELSE 0

\* uCellPrivateClearRadioParameters(): every field to its "unknown" value.
ClearedRadioParameters ==
    [rssiDbm |-> 0, rsrpDbm |-> 0, rsrqDb |-> 0,
     rxQual |-> -1, cellId |-> -1, earfcn |-> -1]

(***************************************************************************)
(* The public functions and the responses the module may give.             *)
(***************************************************************************)
FieldGetters == {"getRssiDbm", "getRsrpDbm", "getRsrqDb",
                 "getRxQual", "getCellId", "getEarfcn"}
\* The getters whose error value is zero ("negative values are valid").
ZeroGetters == {"getRssiDbm", "getRsrpDbm", "getRsrqDb"}
\* The readers of a string into a caller's buffer of a given size.
SizedStringOps == {"getIccidStr", "getManufacturerStr", "getModelStr",
                   "getFirmwareVersionStr"}
\* The functions with an output pointer.
PointerOps == {"getSnrDb", "getImei", "getImsi"} \cup SizedStringOps
Ops == {"refresh", "getTimeUtc"} \cup FieldGetters \cup PointerOps

\* The pointer and size arguments a call of o may be given.
ArgsOf(o) ==
    IF o \in SizedStringOps THEN {"ok", "null", "zeroSize"}
    ELSE IF o \in PointerOps THEN {"ok", "null"}
    ELSE {"ok"}

\* A seeded fault of the initial values: the three getters of a dBm value
\* start from the error code like the rest.
InitialErrorCodeUniform(o) == U_ERROR_COMMON_NOT_INITIALISED

\* The value a function's result variable is initialised with.
InitialErrorCode(o) ==
    IF o \in ZeroGetters THEN 0 ELSE U_ERROR_COMMON_NOT_INITIALISED

\* What uAtClientUnlock() may return.
AtStatuses == {U_ERROR_COMMON_SUCCESS, U_ERROR_COMMON_TIMEOUT,
               U_ERROR_COMMON_DEVICE_ERROR}

\* +CSQ: <x>,<y> as uAtClientReadInt() delivers them (-1: read failed).
CsqResponses ==
    { [x |-> 11, y |-> 3,  status |-> U_ERROR_COMMON_SUCCESS],
      [x |-> 99, y |-> 99, status |-> U_ERROR_COMMON_SUCCESS],
      [x |-> 11, y |-> 3,  status |-> U_ERROR_COMMON_TIMEOUT] }

\* +UCGED: 2, the integers read from the line of interest.
Ucged2Responses ==
    { [earfcn |-> 2525, pcid |-> 1, rsrp |-> 28, rsrq |-> 31,
       status |-> U_ERROR_COMMON_SUCCESS],
      [earfcn |-> 2525, pcid |-> 1, rsrp |-> 255, rsrq |-> 255,
       status |-> U_ERROR_COMMON_SUCCESS],
      [earfcn |-> 2525, pcid |-> 1, rsrp |-> 28, rsrq |-> -1,
       status |-> U_ERROR_COMMON_DEVICE_ERROR],
      [earfcn |-> -1, pcid |-> -1, rsrp |-> -1, rsrq |-> -1,
       status |-> U_ERROR_COMMON_DEVICE_ERROR] }

\* +RSRP:/+RSRQ: of UCGED=5.  A decimal string is held as its value in
\* tenths; bytes is what uAtClientReadString() returned for it.
Ucged5Responses ==
    { [cellId |-> 1, earfcn |-> 2525,
       rsrpBytes |-> 6, rsrpTenths |-> -905,
       rsrqBytes |-> 6, rsrqTenths |-> -104,
       status |-> U_ERROR_COMMON_SUCCESS],
      [cellId |-> 1, earfcn |-> 2525,
       rsrpBytes |-> 6, rsrpTenths |-> -905,
       rsrqBytes |-> -1, rsrqTenths |-> 0,
       status |-> U_ERROR_COMMON_DEVICE_ERROR],
      [cellId |-> -1, earfcn |-> -1,
       rsrpBytes |-> -1, rsrpTenths |-> 0,
       rsrqBytes |-> -1, rsrqTenths |-> 0,
       status |-> U_ERROR_COMMON_DEVICE_ERROR] }

\* A seeded fault of the rounding: 0.5 is added whatever the sign.
RoundDecimalAddOnly(tenths) == CDiv(tenths + 5, 10)

\* (int32_t) (rsrx + 0.5) or (int32_t) (rsrx - 0.5), rsrx given in tenths.
RoundDecimal(tenths) ==
    IF tenths >= 0 THEN CDiv(tenths + 5, 10) ELSE CDiv(tenths - 5, 10)

(***************************************************************************)
(* The state.                                                              *)
(***************************************************************************)
VARIABLES
    mutexCreated,     \* gUCellPrivateMutex != NULL
    mutexOwner,       \* the thread holding gUCellPrivateMutex, 0 if none
    moduleType,       \* pInstance->pModule->moduleType, per handle
    radioParameters,  \* pInstance->radioParameters, per handle
    atLock,           \* the thread holding the AT client lock, per handle
    pc,               \* where each thread is
    op,               \* the public function a thread is in
    handle,           \* its cellHandle argument
    errorCode,        \* its errorCode / errorCodeOrValue local
    log,              \* what the current call did: commands sent, sleeps
    foreign,          \* another call sent a command after this call's own
    interleaved,      \* some call sent a command after a foreign one
    lastRefresh,      \* per handle: the outcome of the latest refresh
    arg,              \* a call's pointer and size arguments: usable or not
    x,                \* the loop counter of uCellInfoGetImei()
    buf,              \* a call's pImei / pStr / buffer[], as far as written
    outSet, outInt,   \* *pSnrDb or timeUtc: whether written, and the value
    valids,           \* per IMEI attempt of the call: was the answer an IMEI
    results,          \* what uAtClientUnlock() returned to the call so far
    decIn, decFn, decOut,  \* a decoder applied to a code on its own
    adv               \* a call of uBleGapSetAdvData(): arguments and outcome

vars == << mutexCreated, mutexOwner, moduleType, radioParameters, atLock,
           pc, op, handle, errorCode, log, foreign, interleaved,
           lastRefresh, arg, x, buf, outSet, outInt, valids, results,
           decIn, decFn, decOut, adv >>

shared == << mutexCreated, mutexOwner, moduleType, radioParameters, atLock,
             lastRefresh >>
locals == << pc, op, handle, errorCode >>
ghosts == << log, foreign, interleaved, results >>
decoder == << decIn, decFn, decOut, adv >>
scratch == << arg, x, buf, outSet, outInt, valids >>

WireCommands == {"AT+CSQ", "AT+UCGED?", "AT+CGSN", "AT+CIMI", "AT+CCID",
                 "AT+CGMI", "AT+CGMM", "AT+CGMR", "AT+CCLK?"}
HasSent(t) == \E i \in 1 .. Len(log[t]) : log[t][i] \in WireCommands

\* A command goes out on the wire for thread t's call.
Send(t, cmd) ==
    /\ log' = [log EXCEPT ![t] = Append(@, cmd)]
    /\ foreign' = [u \in Threads |->
                      IF u = t THEN FALSE ELSE foreign[u] \/ HasSent(u)]
    /\ interleaved' = (interleaved \/ foreign[t])
    /\ UNCHANGED results

\* Something that is not a command is noted for thread t's call.
Note(t, what) ==
    /\ log' = [log EXCEPT ![t] = Append(@, what)]
    /\ UNCHANGED << foreign, interleaved, results >>

\* No call of uBleGapSetAdvData() is made.
NoAdvCall ==
    [pc |-> "none", nameLen |-> -1, manufPtr |-> FALSE, manufDataSize |-> 0,
     advDataSize |-> 0, written |-> 0, ret |-> 0]

InitMain ==
    /\ mutexCreated \in BOOLEAN
    /\ mutexOwner = 0
    /\ moduleType \in ModuleAssignments
    /\ radioParameters = [h \in Handles |-> ClearedRadioParameters]
    /\ atLock = [h \in Handles |-> 0]
    /\ pc = [t \in Threads |-> "idle"]
    /\ op = [t \in Threads |-> "none"]
    /\ handle = [t \in Threads |-> BadHandle]
    /\ errorCode = [t \in Threads |-> 0]
    /\ log = [t \in Threads |-> << >>]
    /\ foreign = [t \in Threads |-> FALSE]
    /\ interleaved = FALSE
    /\ lastRefresh = [h \in Handles |-> [state |-> "never", status |-> 0]]
    /\ arg = [t \in Threads |-> "ok"]
    /\ x = [t \in Threads |-> 0]
    /\ buf = [t \in Threads |-> << >>]
    /\ outSet = [t \in Threads |-> FALSE]
    /\ outInt = [t \in Threads |-> 0]
    /\ valids = [t \in Threads |-> << >>]
    /\ results = [t \in Threads |-> << >>]

Init ==
    /\ InitMain
    /\ decIn = 0 /\ decFn = "none" /\ decOut = 0
    /\ adv = NoAdvCall

(***************************************************************************)
(* Entering and leaving a public function.                                 *)
(***************************************************************************)
\* A thread calls a public function.  Nothing reads the function's
\* arguments before the mutex is taken, so they are drawn at that point.
Call(t) ==
    /\ pc[t] = "idle"
    /\ pc' = [pc EXCEPT ![t] = "lock"]
    /\ UNCHANGED << shared, op, handle, errorCode, ghosts, decoder, scratch >>

\* if (gUCellPrivateMutex != NULL) is false: the initial value is returned.
NotInitialised(t) ==
    /\ pc[t] = "lock"
    /\ ~mutexCreated
    /\ \E o \in Ops :
          /\ op' = [op EXCEPT ![t] = o]
          /\ errorCode' = [errorCode EXCEPT ![t] = InitialErrorCode(o)]
    /\ pc' = [pc EXCEPT ![t] = "ret"]
    /\ UNCHANGED << shared, handle, ghosts, decoder, scratch >>

Return(t) ==
    /\ pc[t] = "ret"
    /\ pc' = [pc EXCEPT ![t] = "idle"]
    /\ op' = [op EXCEPT ![t] = "none"]
    /\ errorCode' = [errorCode EXCEPT ![t] = 0]
    /\ UNCHANGED << shared, handle, ghosts, decoder, scratch >>

\* A seeded fault of the mutex: the lock is granted while it is held.
MutexAlwaysFree == TRUE

\* U_PORT_MUTEX_LOCK() returns only when no thread holds the mutex.
MutexFree == mutexOwner = 0

MutexLock(t) ==
    /\ pc[t] = "lock"
    /\ mutexCreated
    /\ MutexFree
    /\ mutexOwner' = t
    /\ \E o \in Ops, h \in AllHandles :
          /\ op' = [op EXCEPT ![t] = o]
          /\ handle' = [handle EXCEPT ![t] = h]
          /\ errorCode' = [errorCode EXCEPT ![t] = InitialErrorCode(o)]
          /\ \E a \in ArgsOf(o) : arg' = [arg EXCEPT ![t] = a]
    /\ pc' = [pc EXCEPT ![t] = "locked"]
    /\ UNCHANGED << mutexCreated, moduleType, radioParameters, atLock,
                    lastRefresh, ghosts, decoder,
                    x, buf, outSet, outInt, valids >>

\* U_PORT_MUTEX_UNLOCK() and the return of the result.
MutexUnlock(t) ==
    /\ pc[t] = "unlock"
    /\ mutexOwner' = 0
    /\ lastRefresh' =
          IF op[t] = "refresh" /\ handle[t] \in Handles
            THEN [lastRefresh EXCEPT ![handle[t]] =
                      [state |-> "done", status |-> errorCode[t]]]
            ELSE lastRefresh
    /\ pc' = [pc EXCEPT ![t] = "idle"]
    /\ op' = [op EXCEPT ![t] = "none"]
    /\ handle' = [handle EXCEPT ![t] = BadHandle]
    /\ errorCode' = [errorCode EXCEPT ![t] = 0]
    /\ log' = [log EXCEPT ![t] = << >>]
    /\ foreign' = [foreign EXCEPT ![t] = FALSE]
    /\ arg' = [arg EXCEPT ![t] = "ok"]
    /\ x' = [x EXCEPT ![t] = 0]
    /\ buf' = [buf EXCEPT ![t] = << >>]
    /\ outSet' = [outSet EXCEPT ![t] = FALSE]
    /\ outInt' = [outInt EXCEPT ![t] = 0]
    /\ valids' = [valids EXCEPT ![t] = << >>]
    /\ results' = [results EXCEPT ![t] = << >>]
    /\ UNCHANGED << mutexCreated, moduleType, radioParameters, atLock,
                    interleaved, decoder >>

(***************************************************************************)
(* uCellInfoRefreshRadioParameters().                                      *)
(***************************************************************************)
\* A seeded fault of the refresh: the result is set to "not registered"
\* before the instance is looked at.
RefreshNoInstanceNotRegistered(t) ==
    /\ pc[t] = "locked" /\ op[t] = "refresh"
    /\ handle[t] \notin Handles
    /\ errorCode' = [errorCode EXCEPT ![t] = U_CELL_ERROR_NOT_REGISTERED]
    /\ pc' = [pc EXCEPT ![t] = "unlock"]
    /\ UNCHANGED << shared, op, handle, ghosts, decoder, scratch >>

\* pUCellPrivateGetInstance() returned NULL.
RefreshNoInstance(t) ==
    /\ pc[t] = "locked" /\ op[t] = "refresh"
    /\ handle[t] \notin Handles
    /\ errorCode' = [errorCode EXCEPT ![t] = U_ERROR_COMMON_INVALID_PARAMETER]
    /\ pc' = [pc EXCEPT ![t] = "unlock"]
    /\ UNCHANGED << shared, op, handle, ghosts, decoder, scratch >>

\* A seeded fault of the refresh: the snapshot is cleared only once the
\* instance is found to be registered.
RefreshClearIfRegistered(t) ==
    /\ pc[t] = "locked" /\ op[t] = "refresh"
    /\ handle[t] \in Handles
    /\ lastRefresh' = [lastRefresh EXCEPT ![handle[t]] =
                          [state |-> "running", status |-> 0]]
    /\ errorCode' = [errorCode EXCEPT ![t] = U_CELL_ERROR_NOT_REGISTERED]
    /\ Note(t, "CLEAR")
    /\ \E registered \in BOOLEAN :
          /\ pc' = [pc EXCEPT ![t] = IF registered THEN "csq" ELSE "unlock"]
          /\ radioParameters' =
                IF registered
                  THEN [radioParameters EXCEPT
                           ![handle[t]] = ClearedRadioParameters]
                  ELSE radioParameters
    /\ UNCHANGED << mutexCreated, mutexOwner, moduleType, atLock,
                    op, handle, decoder, scratch >>

\* A seeded fault of the refresh: the snapshots of all instances are
\* cleared.
RefreshClearAll(t) ==
    /\ pc[t] = "locked" /\ op[t] = "refresh"
    /\ handle[t] \in Handles
    /\ radioParameters' = [h \in Handles |-> ClearedRadioParameters]
    /\ lastRefresh' = [lastRefresh EXCEPT ![handle[t]] =
                          [state |-> "running", status |-> 0]]
    /\ errorCode' = [errorCode EXCEPT ![t] = U_CELL_ERROR_NOT_REGISTERED]
    /\ Note(t, "CLEAR")
    /\ \E registered \in BOOLEAN :
          pc' = [pc EXCEPT ![t] = IF registered THEN "csq" ELSE "unlock"]
    /\ UNCHANGED << mutexCreated, mutexOwner, moduleType, atLock,
                    op, handle, decoder, scratch >>

\* The snapshot is cleared, then uCellPrivateIsRegistered() decides.
RefreshClear(t) ==
    /\ pc[t] = "locked" /\ op[t] = "refresh"
    /\ handle[t] \in Handles
    /\ radioParameters' =
          [radioParameters EXCEPT ![handle[t]] = ClearedRadioParameters]
    /\ lastRefresh' = [lastRefresh EXCEPT ![handle[t]] =
                          [state |-> "running", status |-> 0]]
    /\ errorCode' = [errorCode EXCEPT ![t] = U_CELL_ERROR_NOT_REGISTERED]
    /\ Note(t, "CLEAR")
    /\ \E registered \in BOOLEAN :
          pc' = [pc EXCEPT ![t] = IF registered THEN "csq" ELSE "unlock"]
    /\ UNCHANGED << mutexCreated, mutexOwner, moduleType, atLock,
                    op, handle, decoder, scratch >>

\* uAtClientLock() and the command of an exchange on the handle's session.
AtSend(t, cmd, next) ==
    /\ atLock[handle[t]] = 0
    /\ atLock' = [atLock EXCEPT ![handle[t]] = t]
    /\ Send(t, cmd)
    /\ pc' = [pc EXCEPT ![t] = next]
    /\ UNCHANGED << mutexCreated, mutexOwner, moduleType, radioParameters,
                    lastRefresh, op, handle, errorCode, decoder, scratch >>

\* getRadioParamsCsq(), up to uAtClientCommandStop().
getRadioParamsCsqSend(t) ==
    /\ pc[t] = "csq"
    /\ AtSend(t, "AT+CSQ", "csqResp")

\* A seeded fault of getRadioParamsCsq(): the second value is stored as
\* it was read.
CsqParametersRaw(p, r) ==
    IF r.status = 0
      THEN [p EXCEPT
              !.rssiDbm = IF (r.x >= 0) /\ (r.x < Len(gRssiConvertLte))
                            THEN gRssiConvertLte[r.x + 1] ELSE @,
              !.rxQual = r.y]
      ELSE p

\* The snapshot after getRadioParamsCsq() read response r.
CsqParameters(p, r) ==
    IF r.status = 0
      THEN [p EXCEPT
              !.rssiDbm = IF (r.x >= 0) /\ (r.x < Len(gRssiConvertLte))
                            THEN gRssiConvertLte[r.x + 1] ELSE @,
              !.rxQual = IF r.y = 99 THEN -1 ELSE r.y]
      ELSE p

\* A seeded fault of the refresh: the sleep follows AT+CSQ on every module.
AfterCsqAlwaysBlock(h) == "block"

\* A seeded fault of the refresh: a SARA-R5 is asked the second query at
\* once, without the sleep.
AfterCsqNoBlock(h) ==
    IF moduleType[h] = "SARA_R5" THEN "ucged2"
    ELSE IF IsSaraR4(moduleType[h]) THEN "block" ELSE "unlock"

\* Where uCellInfoRefreshRadioParameters() goes after getRadioParamsCsq().
AfterCsq(h) ==
    IF moduleType[h] = "SARA_R5" \/ IsSaraR4(moduleType[h])
      THEN "block" ELSE "unlock"

\* A seeded fault of getRadioParamsCsq(): uAtClientUnlock() is not called,
\* the result being taken from the stream.
getRadioParamsCsqRecvKeepsLock(t) ==
    /\ pc[t] = "csqResp"
    /\ \E r \in CsqResponses :
          /\ radioParameters' = [radioParameters EXCEPT ![handle[t]] =
                                    CsqParameters(@, r)]
          /\ errorCode' = [errorCode EXCEPT ![t] = r.status]
          /\ results' = [results EXCEPT ![t] = Append(@, r.status)]
    /\ pc' = [pc EXCEPT ![t] = AfterCsq(handle[t])]
    /\ UNCHANGED << mutexCreated, mutexOwner, moduleType, atLock, lastRefresh,
                    op, handle, log, foreign, interleaved, decoder, scratch >>

\* A seeded fault of getRadioParamsCsq(): a timeout of the exchange is
\* passed on as success.
getRadioParamsCsqRecvMasked(t) ==
    /\ pc[t] = "csqResp"
    /\ \E r \in CsqResponses :
          /\ radioParameters' = [radioParameters EXCEPT ![handle[t]] =
                                    CsqParameters(@, r)]
          /\ errorCode' = [errorCode EXCEPT ![t] =
                IF r.status = U_ERROR_COMMON_TIMEOUT
                  THEN U_ERROR_COMMON_SUCCESS ELSE r.status]
          /\ results' = [results EXCEPT ![t] = Append(@, r.status)]
    /\ atLock' = [atLock EXCEPT ![handle[t]] = 0]
    /\ pc' = [pc EXCEPT ![t] = AfterCsq(handle[t])]
    /\ UNCHANGED << mutexCreated, mutexOwner, moduleType, lastRefresh,
                    op, handle, log, foreign, interleaved, decoder, scratch >>

\* getRadioParamsCsq(), from uAtClientResponseStart() on.
getRadioParamsCsqRecv(t) ==
    /\ pc[t] = "csqResp"
    /\ \E r \in CsqResponses :
          /\ radioParameters' = [radioParameters EXCEPT ![handle[t]] =
                                    CsqParameters(@, r)]
          /\ errorCode' = [errorCode EXCEPT ![t] = r.status]
          /\ results' = [results EXCEPT ![t] = Append(@, r.status)]
    /\ atLock' = [atLock EXCEPT ![handle[t]] = 0]
    /\ pc' = [pc EXCEPT ![t] = AfterCsq(handle[t])]
    /\ UNCHANGED << mutexCreated, mutexOwner, moduleType, lastRefresh,
                    op, handle, log, foreign, interleaved, decoder, scratch >>

\* A seeded fault of the sleep: the mutex is given up for its duration.
BlockR5Unlocked(t) ==
    /\ pc[t] = "block"
    /\ moduleType[handle[t]] = "SARA_R5"
    /\ mutexOwner' = 0
    /\ Note(t, "BLOCK")
    /\ pc' = [pc EXCEPT ![t] = "ucged2"]
    /\ UNCHANGED << mutexCreated, moduleType, radioParameters, atLock,
                    lastRefresh, op, handle, errorCode, decoder, scratch >>

\* uPortTaskBlock(500) on a SARA-R5, then on to getRadioParamsUcged2().
BlockR5(t) ==
    /\ pc[t] = "block"
    /\ moduleType[handle[t]] = "SARA_R5"
    /\ Note(t, "BLOCK")
    /\ pc' = [pc EXCEPT ![t] = "ucged2"]
    /\ UNCHANGED << shared, op, handle, errorCode, decoder, scratch >>

\* A seeded fault of the refresh: outside EUTRAN the result of AT+CSQ is
\* left as the result of the refresh.
BlockR4KeepsStatus(t) ==
    /\ pc[t] = "block"
    /\ IsSaraR4(moduleType[handle[t]])
    /\ Note(t, "BLOCK")
    /\ \E rat \in Rats :
          pc' = [pc EXCEPT ![t] = IF RatIsEutran(rat) THEN "ucged5"
                                                       ELSE "unlock"]
    /\ UNCHANGED << shared, op, handle, errorCode, decoder, scratch >>

\* uPortTaskBlock(500) on a SARA-R4, then the active RAT decides.
BlockR4(t) ==
    /\ pc[t] = "block"
    /\ IsSaraR4(moduleType[handle[t]])
    /\ Note(t, "BLOCK")
    /\ \E rat \in Rats :
          IF RatIsEutran(rat)
            THEN /\ pc' = [pc EXCEPT ![t] = "ucged5"]
                 /\ UNCHANGED errorCode
            ELSE /\ pc' = [pc EXCEPT ![t] = "unlock"]
                 /\ errorCode' = [errorCode EXCEPT ![t] =
                                     U_ERROR_COMMON_SUCCESS]
    /\ UNCHANGED << shared, op, handle, decoder, scratch >>

getRadioParamsUcged2Send(t) ==
    /\ pc[t] = "ucged2"
    /\ AtSend(t, "AT+UCGED?", "ucged2Resp")

\* The snapshot after getRadioParamsUcged2() read response r.
Ucged2Parameters(p, r) ==
    [p EXCEPT !.earfcn = r.earfcn,
              !.cellId = r.pcid,
              !.rsrpDbm = rsrpToDbm(r.rsrp),
              !.rsrqDb = rsrqToDb(r.rsrq)]

\* A seeded fault of the refresh: a failure of AT+CSQ is kept as the result
\* whatever the second query returns.
getRadioParamsUcged2RecvKeepsFailure(t) ==
    /\ pc[t] = "ucged2Resp"
    /\ \E r \in Ucged2Responses :
          /\ radioParameters' = [radioParameters EXCEPT ![handle[t]] =
                                    Ucged2Parameters(@, r)]
          /\ errorCode' = [errorCode EXCEPT ![t] =
                               IF @ # 0 THEN @ ELSE r.status]
          /\ results' = [results EXCEPT ![t] = Append(@, r.status)]
    /\ atLock' = [atLock EXCEPT ![handle[t]] = 0]
    /\ pc' = [pc EXCEPT ![t] = "unlock"]
    /\ UNCHANGED << mutexCreated, mutexOwner, moduleType, lastRefresh,
                    op, handle, log, foreign, interleaved, decoder, scratch >>

getRadioParamsUcged2Recv(t) ==
    /\ pc[t] = "ucged2Resp"
    /\ \E r \in Ucged2Responses :
          /\ radioParameters' = [radioParameters EXCEPT ![handle[t]] =
                                    Ucged2Parameters(@, r)]
          /\ errorCode' = [errorCode EXCEPT ![t] = r.status]
          /\ results' = [results EXCEPT ![t] = Append(@, r.status)]
    /\ atLock' = [atLock EXCEPT ![handle[t]] = 0]
    /\ pc' = [pc EXCEPT ![t] = "unlock"]
    /\ UNCHANGED << mutexCreated, mutexOwner, moduleType, lastRefresh,
                    op, handle, log, foreign, interleaved, decoder, scratch >>

getRadioParamsUcged5Send(t) ==
    /\ pc[t] = "ucged5"
    /\ AtSend(t, "AT+UCGED?", "ucged5Resp")

\* The snapshot after getRadioParamsUcged5() read response r.
Ucged5Parameters(p, r) ==
    [p EXCEPT !.cellId = r.cellId,
              !.earfcn = r.earfcn,
              !.rsrpDbm = IF r.rsrpBytes > 0
                            THEN RoundDecimal(r.rsrpTenths) ELSE @,
              !.rsrqDb = IF r.rsrqBytes > 0
                           THEN RoundDecimal(r.rsrqTenths) ELSE @]

getRadioParamsUcged5Recv(t) ==
    /\ pc[t] = "ucged5Resp"
    /\ \E r \in Ucged5Responses :
          /\ radioParameters' = [radioParameters EXCEPT ![handle[t]] =
                                    Ucged5Parameters(@, r)]
          /\ errorCode' = [errorCode EXCEPT ![t] = r.status]
          /\ results' = [results EXCEPT ![t] = Append(@, r.status)]
    /\ atLock' = [atLock EXCEPT ![handle[t]] = 0]
    /\ pc' = [pc EXCEPT ![t] = "unlock"]
    /\ UNCHANGED << mutexCreated, mutexOwner, moduleType, lastRefresh,
                    op, handle, log, foreign, interleaved, decoder, scratch >>

(***************************************************************************)
(* The getters of the snapshot's fields.                                   *)
(***************************************************************************)
\* The field of snapshot p that getter o returns.
FieldOf(o, p) ==
    CASE o = "getRssiDbm" -> p.rssiDbm
      [] o = "getRsrpDbm" -> p.rsrpDbm
      [] o = "getRsrqDb"  -> p.rsrqDb
      [] o = "getRxQual"  -> p.rxQual
      [] o = "getCellId"  -> p.cellId
      [] o = "getEarfcn"  -> p.earfcn

\* A seeded fault of the getters: all of them set the result to "invalid
\* parameter" before they look at the instance.
GetFieldUniform(t) ==
    /\ pc[t] = "locked" /\ op[t] \in FieldGetters
    /\ errorCode' = [errorCode EXCEPT ![t] =
          IF handle[t] \in Handles
            THEN FieldOf(op[t], radioParameters[handle[t]])
            ELSE U_ERROR_COMMON_INVALID_PARAMETER]
    /\ pc' = [pc EXCEPT ![t] = "unlock"]
    /\ UNCHANGED << shared, op, handle, ghosts, decoder, scratch >>

\* uCellInfoGetRssiDbm() ... uCellInfoGetEarfcn(), inside the mutex.
GetField(t) ==
    /\ pc[t] = "locked" /\ op[t] \in FieldGetters
    /\ errorCode' = [errorCode EXCEPT ![t] =
          IF handle[t] \in Handles
            THEN FieldOf(op[t], radioParameters[handle[t]])
            ELSE IF op[t] \in ZeroGetters
                   THEN @ ELSE U_ERROR_COMMON_INVALID_PARAMETER]
    /\ pc' = [pc EXCEPT ![t] = "unlock"]
    /\ UNCHANGED << shared, op, handle, ghosts, decoder, scratch >>

(***************************************************************************)
(* uCellInfoGetSnrDb().                                                    *)
(***************************************************************************)
RECURSIVE Pow10(_)
Pow10(n) == IF n = 0 THEN 1 ELSE 10 * Pow10(n - 1)

\* 1000 * 10^(r / 10) for r = 0 .. 9, to the nearest integer.
Pow10Tenths == << 1000, 1259, 1585, 1995, 2512, 3162, 3981, 5012, 6310, 7943 >>

\* 1000 * pow(10.0, d / 10) for d >= 0.
Linear(d) == Pow10Tenths[(d % 10) + 1] * Pow10(d \div 10)

\* (int32_t) (10 * log10(rsrp / (rssi - rsrp))) where rssi / rsrp is
\* pow(10.0, d / 10), d = rssiDbm - rsrpDbm > 0.
\* From d = 7 on, pow(10.0, d / 10) - 1 lies between pow(10.0, (d - 1) / 10)
\* and pow(10.0, d / 10) and the result is -(d - 1); this is used where the
\* integers below would not fit 32 bits.
SnrOfDifference(d) ==
    LET m == Linear(d) - 1000
        below == {k \in 0 .. d : Linear(k) <= m}
        above == {k \in 0 .. 10 : Linear(k) * m <= 1000000}
    IN  IF d > 60 THEN -(d - 1)
        ELSE IF m >= 1000
          THEN -(CHOOSE k \in below : \A j \in below : j <= k)
          ELSE CHOOSE k \in above : \A j \in above : j <= k

\* A seeded fault of uCellInfoGetSnrDb(): the two readings are compared
\* without asking whether there is a reading.
SnrResultNoZeroCheck(p) ==
    IF p.rssiDbm = p.rsrpDbm
      THEN [code |-> U_ERROR_COMMON_SUCCESS, set |-> TRUE, val |-> INT_MAX]
    ELSE IF (p.rssiDbm # 0) /\ (p.rsrpDbm # 0) /\ (p.rssiDbm > p.rsrpDbm)
      THEN [code |-> U_ERROR_COMMON_SUCCESS, set |-> TRUE,
            val |-> SnrOfDifference(p.rssiDbm - p.rsrpDbm)]
    ELSE [code |-> U_CELL_ERROR_VALUE_OUT_OF_RANGE, set |-> FALSE, val |-> 0]

\* A seeded fault of uCellInfoGetSnrDb(): errno is not looked at after
\* log10(), whose result for a negative number is then converted.
SnrResultNoErrno(p) ==
    IF (p.rssiDbm # 0) /\ (p.rssiDbm = p.rsrpDbm)
      THEN [code |-> U_ERROR_COMMON_SUCCESS, set |-> TRUE, val |-> INT_MAX]
    ELSE IF (p.rssiDbm # 0) /\ (p.rsrpDbm # 0)
      THEN [code |-> U_ERROR_COMMON_SUCCESS, set |-> TRUE,
            val |-> IF p.rssiDbm > p.rsrpDbm
                      THEN SnrOfDifference(p.rssiDbm - p.rsrpDbm) ELSE 0]
    ELSE [code |-> U_CELL_ERROR_VALUE_OUT_OF_RANGE, set |-> FALSE, val |-> 0]

\* What uCellInfoGetSnrDb() returns and writes for snapshot p.
SnrResult(p) ==
    IF (p.rssiDbm # 0) /\ (p.rssiDbm = p.rsrpDbm)
      THEN [code |-> U_ERROR_COMMON_SUCCESS, set |-> TRUE, val |-> INT_MAX]
    ELSE IF (p.rssiDbm # 0) /\ (p.rsrpDbm # 0) /\ (p.rssiDbm > p.rsrpDbm)
      THEN [code |-> U_ERROR_COMMON_SUCCESS, set |-> TRUE,
            val |-> SnrOfDifference(p.rssiDbm - p.rsrpDbm)]
    \* a reading is 0, or rssi - rsrp < 0: pow() leaves errno at 0 and
    \* log10() of a negative number sets it to EDOM (a C library that reports
    \* the errors of its mathematical functions in errno, as the test of
    \* errno in the code expects)
    ELSE [code |-> U_CELL_ERROR_VALUE_OUT_OF_RANGE, set |-> FALSE, val |-> 0]

GetSnrDb(t) ==
    /\ pc[t] = "locked" /\ op[t] = "getSnrDb"
    /\ IF (handle[t] \in Handles) /\ (arg[t] = "ok")
         THEN LET r == SnrResult(radioParameters[handle[t]])
              IN  /\ errorCode' = [errorCode EXCEPT ![t] = r.code]
                  /\ outSet' = [outSet EXCEPT ![t] = r.set]
                  /\ outInt' = [outInt EXCEPT ![t] = r.val]
         ELSE /\ errorCode' = [errorCode EXCEPT ![t] =
                                  U_ERROR_COMMON_INVALID_PARAMETER]
              /\ UNCHANGED << outSet, outInt >>
    /\ pc' = [pc EXCEPT ![t] = "unlock"]
    /\ UNCHANGED << shared, op, handle, ghosts, decoder, arg, x, buf, valids >>

(***************************************************************************)
(* The readers of strings: uCellInfoGetImei() and the rest.                *)
(***************************************************************************)
\* Strings, as the sequences of their characters.
IMEI15 == << "3", "5", "7", "8", "6", "2", "0", "9", "0", "1", "2", "3", "4", "5", "6" >>
IMEI14 == << "3", "5", "7", "8", "6", "2", "0", "9", "0", "1", "2", "3", "4", "5" >>
URC15 == << "+", "C", "E", "R", "E", "G", ":", " ", "1", ",", "A", "1", "B", ",", "7" >>
CCLK_PLUS == << "2", "1", "/", "0", "8", "/", "0", "5", ",", "1", "2", ":", "3", "0", ":", "0", "0", "+", "0", "4" >>
CCLK_MINUS == << "2", "1", "/", "0", "8", "/", "0", "5", ",", "1", "2", ":", "3", "0", ":", "0", "0", "-", "0", "4" >>
CCLK_NO_TZ == << "2", "1", "/", "0", "8", "/", "0", "5", ",", "1", "2", ":", "3", "0", ":", "0", "0" >>
CCLK_SHORT == << "2", "1", "/", "0", "8", "/", "0", "5", ",", "1", "2", ":", "3", "0" >>
CCLK_2040 == << "4", "0", "/", "0", "1", "/", "0", "1", ",", "0", "0", ":", "0", "0", ":", "0", "0" >>

Digits == << "0", "1", "2", "3", "4", "5", "6", "7", "8", "9" >>
IsDigit(c) == \E i \in 1 .. 10 : Digits[i] = c
DigitVal(c) == (CHOOSE i \in 1 .. 10 : Digits[i] = c) - 1

U_CELL_INFO_IMEI_SIZE == 15
\* The number of times uCellInfoGetImei() tries.
ImeiTries == 10

\* uCellPrivateIsNumeric(): the first n characters are all decimal digits.
uCellPrivateIsNumeric(str, n) ==
    /\ Len(str) >= n
    /\ \A i \in 1 .. n : IsDigit(str[i])

\* What may arrive in answer to AT+CGSN: the IMEI, a URC of the same
\* length, a shorter line, the IMEI with the exchange failing.
ImeiResponses ==
    { [bytes |-> IMEI15, status |-> U_ERROR_COMMON_SUCCESS],
      [bytes |-> URC15, status |-> U_ERROR_COMMON_SUCCESS],
      [bytes |-> IMEI14, status |-> U_ERROR_COMMON_SUCCESS],
      [bytes |-> IMEI15, status |-> U_ERROR_COMMON_DEVICE_ERROR] }

\* What uAtClientReadBytes() / uAtClientReadString() returns for response r.
BytesRead(r) == IF r.bytes = << >> /\ r.status # 0 THEN -1 ELSE Len(r.bytes)

\* Response r is the answer to AT+CGSN and not something else: the exchange
\* succeeded and brought exactly 15 characters, all of them decimal digits.
IsImeiAnswer(r) ==
    /\ r.status = 0
    /\ Len(r.bytes) = 15
    /\ \A i \in 1 .. 15 : r.bytes[i] \in {Digits[d] : d \in 1 .. 10}

\* The caller's buffer after the read of response r.
BufferAfter(b, r) == IF BytesRead(r) >= 0 THEN r.bytes ELSE b

\* A seeded fault of the argument check: the function returns from inside
\* the region, the mutex still taken.
IdInvalidParameterReturns(t) ==
    /\ pc[t] = "locked" /\ op[t] \in PointerOps \ {"getSnrDb"}
    /\ (handle[t] \notin Handles) \/ (arg[t] # "ok")
    /\ errorCode' = [errorCode EXCEPT ![t] = U_ERROR_COMMON_INVALID_PARAMETER]
    /\ pc' = [pc EXCEPT ![t] = "ret"]
    /\ UNCHANGED << shared, op, handle, ghosts, decoder, scratch >>

\* A seeded fault of the argument check: the result is not set before it.
IdInvalidParameterNoCode(t) ==
    /\ pc[t] = "locked" /\ op[t] \in PointerOps \ {"getSnrDb"}
    /\ (handle[t] \notin Handles) \/ (arg[t] # "ok")
    /\ pc' = [pc EXCEPT ![t] = "unlock"]
    /\ UNCHANGED << shared, op, handle, errorCode, ghosts, decoder, scratch >>

\* The arguments are checked: (pInstance != NULL) && (pStr != NULL) &&
\* (size > 0), as far as the function has them.
IdInvalidParameter(t) ==
    /\ pc[t] = "locked" /\ op[t] \in PointerOps \ {"getSnrDb"}
    /\ (handle[t] \notin Handles) \/ (arg[t] # "ok")
    /\ errorCode' = [errorCode EXCEPT ![t] = U_ERROR_COMMON_INVALID_PARAMETER]
    /\ pc' = [pc EXCEPT ![t] = "unlock"]
    /\ UNCHANGED << shared, op, handle, ghosts, decoder, scratch >>

ImeiBegin(t) ==
    /\ pc[t] = "locked" /\ op[t] = "getImei"
    /\ (handle[t] \in Handles) /\ (arg[t] = "ok")
    /\ errorCode' = [errorCode EXCEPT ![t] = U_CELL_ERROR_AT]
    /\ x' = [x EXCEPT ![t] = ImeiTries]
    /\ pc' = [pc EXCEPT ![t] = "imeiLoop"]
    /\ UNCHANGED << shared, op, handle, ghosts, decoder,
                    arg, buf, outSet, outInt, valids >>

\* A seeded fault of the loop: it goes on after an attempt was accepted.
ImeiLoopIgnoresSuccess(t) == x[t] > 0

\* (x > 0) && (errorCode != 0)
ImeiLoopCondition(t) == (x[t] > 0) /\ (errorCode[t] # 0)

ImeiSend(t) ==
    /\ pc[t] = "imeiLoop"
    /\ ImeiLoopCondition(t)
    /\ AtSend(t, "AT+CGSN", "imeiResp")

\* Whether the attempt that read response r is accepted.
ImeiAccepted(r) ==
    /\ r.status = 0
    /\ BytesRead(r) = U_CELL_INFO_IMEI_SIZE
    /\ uCellPrivateIsNumeric(r.bytes, U_CELL_INFO_IMEI_SIZE)

ImeiRecv(t) ==
    /\ pc[t] = "imeiResp"
    /\ \E r \in ImeiResponses :
          /\ buf' = [buf EXCEPT ![t] = BufferAfter(@, r)]
          /\ errorCode' = [errorCode EXCEPT ![t] =
                IF ImeiAccepted(r) THEN U_ERROR_COMMON_SUCCESS ELSE @]
          /\ valids' = [valids EXCEPT ![t] = Append(@, IsImeiAnswer(r))]
    /\ atLock' = [atLock EXCEPT ![handle[t]] = 0]
    /\ x' = [x EXCEPT ![t] = @ - 1]
    /\ pc' = [pc EXCEPT ![t] = "imeiLoop"]
    /\ UNCHANGED << mutexCreated, mutexOwner, moduleType, radioParameters,
                    lastRefresh, op, handle, ghosts, decoder,
                    arg, outSet, outInt >>

ImeiEnd(t) ==
    /\ pc[t] = "imeiLoop"
    /\ ~ImeiLoopCondition(t)
    /\ pc' = [pc EXCEPT ![t] = "unlock"]
    /\ UNCHANGED << shared, op, handle, errorCode, ghosts, decoder, scratch >>

\* The command each of the other readers sends.
CommandOf(o) ==
    CASE o = "getImsi" -> "AT+CIMI"
      [] o = "getIccidStr" -> "AT+CCID"
      [] o = "getManufacturerStr" -> "AT+CGMI"
      [] o = "getModelStr" -> "AT+CGMM"
      [] o = "getFirmwareVersionStr" -> "AT+CGMR"

\* What may arrive in answer to them: a string, an empty string, nothing.
StringResponses ==
    { [bytes |-> IMEI14, status |-> U_ERROR_COMMON_SUCCESS],
      [bytes |-> << >>, status |-> U_ERROR_COMMON_SUCCESS],
      [bytes |-> IMEI14, status |-> U_ERROR_COMMON_DEVICE_ERROR],
      [bytes |-> << >>, status |-> U_ERROR_COMMON_TIMEOUT] }

StringSend(t) ==
    /\ pc[t] = "locked" /\ op[t] \in SizedStringOps \cup {"getImsi"}
    /\ (handle[t] \in Handles) /\ (arg[t] = "ok")
    /\ AtSend(t, CommandOf(op[t]), "strResp")

\* The result of uCellPrivateGetImsi(), of getString() and of
\* uCellInfoGetIccidStr() after response r.
StringResult(o, r) ==
    IF (BytesRead(r) >= 0) /\ (r.status = 0)
      THEN (IF o = "getImsi" THEN U_ERROR_COMMON_SUCCESS ELSE BytesRead(r))
      ELSE U_CELL_ERROR_AT

StringRecv(t) ==
    /\ pc[t] = "strResp"
    /\ \E r \in StringResponses :
          /\ buf' = [buf EXCEPT ![t] = BufferAfter(@, r)]
          /\ errorCode' = [errorCode EXCEPT ![t] = StringResult(op[t], r)]
    /\ atLock' = [atLock EXCEPT ![handle[t]] = 0]
    /\ pc' = [pc EXCEPT ![t] = "unlock"]
    /\ UNCHANGED << mutexCreated, mutexOwner, moduleType, radioParameters,
                    lastRefresh, op, handle, ghosts, decoder,
                    arg, x, outSet, outInt, valids >>

(***************************************************************************)
(* uCellInfoGetTimeUtc().                                                  *)
(***************************************************************************)
RECURSIVE AtoiDigits(_, _)
AtoiDigits(str, acc) ==
    IF str = << >> \/ ~IsDigit(Head(str))
      THEN acc
      ELSE AtoiDigits(Tail(str), acc * 10 + DigitVal(Head(str)))

\* atoi(): white space, an optional sign, then digits.
RECURSIVE atoi(_)
atoi(str) ==
    IF str = << >> THEN 0
    ELSE IF Head(str) = " " THEN atoi(Tail(str))
    ELSE IF Head(str) = "-" THEN -AtoiDigits(Tail(str), 0)
    ELSE IF Head(str) = "+" THEN AtoiDigits(Tail(str), 0)
    ELSE AtoiDigits(str, 0)

\* buffer[offset + 2] = 0; atoi(&(buffer[offset])): the two characters at
\* offset (counted from zero), fewer where the string ends before.
Field(buffer, offset) ==
    atoi(SubSeq(buffer, offset + 1,
                IF Len(buffer) < offset + 2 THEN Len(buffer) ELSE offset + 2))

\* The days from 1970-01-01 to the given day, month in 1 .. 12.
DaysFromCivil(year, month, day) ==
    LET y == IF month <= 2 THEN year - 1 ELSE year
        era == y \div 400
        yoe == y - era * 400
        mp == IF month > 2 THEN month - 3 ELSE month + 9
        doy == (153 * mp + 2) \div 5 + day - 1
        doe == yoe * 365 + yoe \div 4 - yoe \div 100 + doy
    IN  era * 146097 + doe - 719468

\* (int32_t) mktime() with the time zone of the platform being UTC: the
\* fields are normalised and the result wraps to 32 bits (once, which
\* covers the years 1970 to 2105).
mktime32(tm) ==
    LET year == tm.tm_year + 1900 + (tm.tm_mon \div 12)
        month == (tm.tm_mon % 12) + 1
        days == DaysFromCivil(year, month, 1) + tm.tm_mday - 1
        secs == tm.tm_hour * 3600 + tm.tm_min * 60 + tm.tm_sec
        \* 2^31 = 24855 * 86400 + 11648
        over == (days - 24855) * 86400 + secs - 11648
    IN  IF over < 0 THEN 2147483647 + over + 1
                    ELSE over - 2147483647 - 1

\* timeInfo as uCellInfoGetTimeUtc() fills it in from buffer.
TimeInfo(buffer) ==
    [tm_year |-> Field(buffer, 0) + 2000 - 1900,
     tm_mon  |-> Field(buffer, 3) - 1,
     tm_mday |-> Field(buffer, 6),
     tm_hour |-> Field(buffer, 9),
     tm_min  |-> Field(buffer, 12),
     tm_sec  |-> Field(buffer, 15)]

\* timeUtc as uCellInfoGetTimeUtc() computes it from buffer.
TimeUtc(buffer) ==
    LET timeUtc == mktime32(TimeInfo(buffer))
    IN  IF (timeUtc >= 0) /\ (Len(buffer) >= 20)
          THEN timeUtc - Field(buffer, 18) * 15 * 60
          ELSE timeUtc

\* What may arrive in answer to AT+CCLK?.
TimeResponses ==
    { [bytes |-> CCLK_PLUS, status |-> U_ERROR_COMMON_SUCCESS],
      [bytes |-> CCLK_MINUS, status |-> U_ERROR_COMMON_SUCCESS],
      [bytes |-> CCLK_NO_TZ, status |-> U_ERROR_COMMON_SUCCESS],
      [bytes |-> CCLK_SHORT, status |-> U_ERROR_COMMON_SUCCESS],
      [bytes |-> CCLK_2040, status |-> U_ERROR_COMMON_SUCCESS],
      [bytes |-> CCLK_NO_TZ, status |-> U_ERROR_COMMON_DEVICE_ERROR],
      [bytes |-> << >>, status |-> U_ERROR_COMMON_TIMEOUT] }

TimeNoInstance(t) ==
    /\ pc[t] = "locked" /\ op[t] = "getTimeUtc"
    /\ handle[t] \notin Handles
    /\ errorCode' = [errorCode EXCEPT ![t] = U_ERROR_COMMON_INVALID_PARAMETER]
    /\ pc' = [pc EXCEPT ![t] = "unlock"]
    /\ UNCHANGED << shared, op, handle, ghosts, decoder, scratch >>

TimeSend(t) ==
    /\ pc[t] = "locked" /\ op[t] = "getTimeUtc"
    /\ handle[t] \in Handles
    /\ AtSend(t, "AT+CCLK?", "timeResp")

\* A seeded fault of the test of what was read: the length is not looked at.
TimeDecodedAnyLength(r) == r.status = 0

\* (bytesRead >= 17) && (errorCodeOrValue == 0)
TimeDecoded(r) == (BytesRead(r) >= 17) /\ (r.status = 0)

TimeRecv(t) ==
    /\ pc[t] = "timeResp"
    /\ \E r \in TimeResponses :
          /\ buf' = [buf EXCEPT ![t] = BufferAfter(@, r)]
          /\ results' = [results EXCEPT ![t] = Append(@, r.status)]
          /\ IF TimeDecoded(r)
               THEN /\ outSet' = [outSet EXCEPT ![t] = TRUE]
                    /\ outInt' = [outInt EXCEPT ![t] = TimeUtc(r.bytes)]
                    /\ errorCode' = [errorCode EXCEPT ![t] =
                          IF TimeUtc(r.bytes) >= 0
                            THEN U_ERROR_COMMON_SUCCESS
                            ELSE U_ERROR_COMMON_UNKNOWN]
               ELSE /\ errorCode' = [errorCode EXCEPT ![t] = U_CELL_ERROR_AT]
                    /\ UNCHANGED << outSet, outInt >>
    /\ atLock' = [atLock EXCEPT ![handle[t]] = 0]
    /\ pc' = [pc EXCEPT ![t] = "unlock"]
    /\ UNCHANGED << mutexCreated, mutexOwner, moduleType, radioParameters,
                    lastRefresh, op, handle, log, foreign, interleaved,
                    decoder, arg, x, valids >>

(***************************************************************************)
(* The specification of the API.                                           *)
(***************************************************************************)
Next ==
    \E t \in Threads :
        \/ Call(t)
        \/ NotInitialised(t)
        \/ Return(t)
        \/ MutexLock(t)
        \/ MutexUnlock(t)
        \/ RefreshNoInstance(t)
        \/ RefreshClear(t)
        \/ getRadioParamsCsqSend(t)
        \/ getRadioParamsCsqRecv(t)
        \/ BlockR5(t)
        \/ BlockR4(t)
        \/ getRadioParamsUcged2Send(t)
        \/ getRadioParamsUcged2Recv(t)
        \/ getRadioParamsUcged5Send(t)
        \/ getRadioParamsUcged5Recv(t)
        \/ GetField(t)
        \/ GetSnrDb(t)
        \/ IdInvalidParameter(t)
        \/ ImeiBegin(t)
        \/ ImeiSend(t)
        \/ ImeiRecv(t)
        \/ ImeiEnd(t)
        \/ StringSend(t)
        \/ StringRecv(t)
        \/ TimeNoInstance(t)
        \/ TimeSend(t)
        \/ TimeRecv(t)

Spec == Init /\ [][Next]_vars

\* What a thread does once it is in a public function.
Proceed(t) ==
    \/ NotInitialised(t) \/ Return(t) \/ MutexUnlock(t)
    \/ RefreshNoInstance(t) \/ RefreshClear(t)
    \/ getRadioParamsCsqSend(t) \/ getRadioParamsCsqRecv(t)
    \/ BlockR5(t) \/ BlockR4(t)
    \/ getRadioParamsUcged2Send(t) \/ getRadioParamsUcged2Recv(t)
    \/ getRadioParamsUcged5Send(t) \/ getRadioParamsUcged5Recv(t)
    \/ GetField(t) \/ GetSnrDb(t) \/ IdInvalidParameter(t)
    \/ ImeiBegin(t) \/ ImeiSend(t) \/ ImeiRecv(t) \/ ImeiEnd(t)
    \/ StringSend(t) \/ StringRecv(t)
    \/ TimeNoInstance(t) \/ TimeSend(t) \/ TimeRecv(t)

\* A thread in a call keeps running and every AT exchange ends; the mutex
\* is granted to a thread that waits for it again and again.
FairSpec ==
    /\ Init /\ [][Next]_vars
    /\ \A t \in Threads : WF_vars(Proceed(t)) /\ SF_vars(MutexLock(t))

(***************************************************************************)
(* The decoders on their own: one is applied to one code.                  *)
(***************************************************************************)
InitDecoders ==
    /\ InitMain
    /\ mutexCreated
    /\ moduleType = [hA |-> "SARA_R5", hB |-> "SARA_U201"]
    /\ decIn \in -MaxCode .. MaxCode
    /\ decFn = "none"
    /\ decOut = 0
    /\ adv = NoAdvCall

ApplyRsrpToDbm ==
    /\ decFn = "none"
    /\ decFn' = "rsrpToDbm"
    /\ decOut' = rsrpToDbm(decIn)
    /\ UNCHANGED << shared, locals, ghosts, scratch, decIn, adv >>

ApplyRsrqToDb ==
    /\ decFn = "none"
    /\ decFn' = "rsrqToDb"
    /\ decOut' = rsrqToDb(decIn)
    /\ UNCHANGED << shared, locals, ghosts, scratch, decIn, adv >>

\* The second values of +CSQ: that are tried: a failed read, values of the
\* range 0 .. 7, the value for unknown, and one beyond it.
CsqSecondValues == {-1, 0, 3, 7, 99, 100}

\* getRadioParamsCsq() for instance hA: the first value read is decIn, the
\* second is kept in decOut and what uAtClientUnlock() returned in results.
ApplyGetRadioParamsCsq ==
    /\ decFn = "none"
    /\ decFn' = "getRadioParamsCsq"
    /\ \E y \in CsqSecondValues, status \in AtStatuses :
          /\ decOut' = y
          /\ results' = [results EXCEPT ![1] = << status >>]
          /\ radioParameters' = [radioParameters EXCEPT !["hA"] =
                CsqParameters(@, [x |-> decIn, y |-> y, status |-> status])]
    /\ UNCHANGED << mutexCreated, mutexOwner, moduleType, atLock,
                    lastRefresh, locals, log, foreign, interleaved,
                    scratch, decIn, adv >>

\* What uAtClientReadString() may return for a decimal string: an error,
\* nothing read, six characters read.
DecimalBytes == {-1, 0, 6}

\* getRadioParamsUcged5() for instance hA where the string after +RSRP: is
\* decIn tenths; what uAtClientReadString() returned for it is kept in
\* decOut.  Nothing is read after +RSRQ:.
ApplyUcged5Rsrp ==
    /\ decFn = "none"
    /\ decFn' = "getRadioParamsUcged5:RSRP"
    /\ \E b \in DecimalBytes :
          /\ decOut' = b
          /\ radioParameters' = [radioParameters EXCEPT !["hA"] =
                Ucged5Parameters(@, [cellId |-> 1, earfcn |-> 2525,
                                     rsrpBytes |-> b, rsrpTenths |-> decIn,
                                     rsrqBytes |-> -1, rsrqTenths |-> 0,
                                     status |-> U_ERROR_COMMON_DEVICE_ERROR])]
    /\ UNCHANGED << mutexCreated, mutexOwner, moduleType, atLock,
                    lastRefresh, locals, ghosts, scratch, decIn, adv >>

\* The same where the string after +RSRQ: is decIn tenths and nothing is
\* read after +RSRP:.
ApplyUcged5Rsrq ==
    /\ decFn = "none"
    /\ decFn' = "getRadioParamsUcged5:RSRQ"
    /\ \E b \in DecimalBytes :
          /\ decOut' = b
          /\ radioParameters' = [radioParameters EXCEPT !["hA"] =
                Ucged5Parameters(@, [cellId |-> 1, earfcn |-> 2525,
                                     rsrpBytes |-> -1, rsrpTenths |-> 0,
                                     rsrqBytes |-> b, rsrqTenths |-> decIn,
                                     status |-> U_ERROR_COMMON_SUCCESS])]
    /\ UNCHANGED << mutexCreated, mutexOwner, moduleType, atLock,
                    lastRefresh, locals, ghosts, scratch, decIn, adv >>

NextDecoders ==
    \/ ApplyRsrpToDbm
    \/ ApplyRsrqToDb
    \/ ApplyGetRadioParamsCsq
    \/ ApplyUcged5Rsrp
    \/ ApplyUcged5Rsrq

SpecDecoders == InitDecoders /\ [][NextDecoders]_vars

(***************************************************************************)
(* uCellInfoGetSnrDb() on its own: a call that has taken the mutex, on a   *)
(* SARA-R5 whose last refresh read any index from AT+CSQ and any RSRP code *)
(* from AT+UCGED?.                                                         *)
(***************************************************************************)
\* The indices AT+CSQ may deliver: those of the table, and 99.
CsqIndices == (0 .. Len(gRssiConvertLte) - 1) \cup {99}

\* The snapshot of a SARA-R5 after a successful refresh that read index i
\* and RSRP code c.
RefreshedParameters(i, c) ==
    Ucged2Parameters(
        CsqParameters(ClearedRadioParameters,
                      [x |-> i, y |-> 99, status |-> U_ERROR_COMMON_SUCCESS]),
        [earfcn |-> 2525, pcid |-> 1, rsrp |-> c, rsrq |-> 255,
         status |-> U_ERROR_COMMON_SUCCESS])

InitSnr ==
    /\ mutexCreated = TRUE
    /\ mutexOwner = 1
    /\ moduleType = [hA |-> "SARA_R5", hB |-> "SARA_U201"]
    /\ \E i \in CsqIndices, c \in 0 .. MaxCode :
          radioParameters = [h \in Handles |->
                                IF h = "hA" THEN RefreshedParameters(i, c)
                                            ELSE ClearedRadioParameters]
    /\ atLock = [h \in Handles |-> 0]
    /\ pc = [t \in Threads |-> IF t = 1 THEN "locked" ELSE "idle"]
    /\ op = [t \in Threads |-> IF t = 1 THEN "getSnrDb" ELSE "none"]
    /\ handle = [t \in Threads |-> IF t = 1 THEN "hA" ELSE BadHandle]
    /\ errorCode = [t \in Threads |->
                       IF t = 1 THEN InitialErrorCode("getSnrDb") ELSE 0]
    /\ log = [t \in Threads |-> << >>]
    /\ foreign = [t \in Threads |-> FALSE]
    /\ interleaved = FALSE
    /\ lastRefresh = [h \in Handles |->
                         IF h = "hA"
                           THEN [state |-> "done",
                                 status |-> U_ERROR_COMMON_SUCCESS]
                           ELSE [state |-> "never", status |-> 0]]
    /\ arg = [t \in Threads |-> "ok"]
    /\ x = [t \in Threads |-> 0]
    /\ buf = [t \in Threads |-> << >>]
    /\ outSet = [t \in Threads |-> FALSE]
    /\ outInt = [t \in Threads |-> 0]
    /\ valids = [t \in Threads |-> << >>]
    /\ results = [t \in Threads |-> << >>]
    /\ decIn = 0 /\ decFn = "none" /\ decOut = 0
    /\ adv = NoAdvCall

NextSnr == \E t \in Threads : GetSnrDb(t) \/ MutexUnlock(t)

SpecSnr == InitSnr /\ [][NextSnr]_vars

(***************************************************************************)
(* uBleGapSetAdvData() (src/ble/src/gen2/u_ble_gap_extmod.c) on its own:   *)
(* one call with a name (or none), manufacturer data (or none) and a       *)
(* buffer pAdvData of advDataSize bytes.                                   *)
(***************************************************************************)
\* The longest name that is tried.
MaxNameLen == 256
\* strlen(pName), -1 standing for pName == NULL.
NameLens == -1 .. MaxNameLen
\* The values of a uint8_t and the conversion to it.
UINT8_MAX == 255
ToUint8(n) == n % (UINT8_MAX + 1)
\* The sizes of pAdvData that are tried: none, that of a legacy
\* advertisement, the largest.
AdvDataSizes == {0, 31, UINT8_MAX}
\* pManufData with manufDataSize: a pointer with every size, NULL with two.
ManufArgs ==
    {[ptr |-> TRUE, size |-> n] : n \in 0 .. UINT8_MAX}
        \cup {[ptr |-> FALSE, size |-> n] : n \in {0, 7}}

\* What uBleGapSetAdvData() returns and the number of bytes it stores
\* through pAdvData for the arguments a.
AdvResult(a) ==
    LET nameSize == IF a.nameLen >= 0 THEN ToUint8(a.nameLen + 2) ELSE 0
        manufDataSize == IF a.manufPtr THEN ToUint8(a.manufDataSize + 2)
                                       ELSE 0
        totSize == nameSize + manufDataSize
        \* nameSize--; *(pAdvData++) = nameSize--; and the same for the
        \* manufacturer data: what is left is the length of the memcpy()
        nameCopied == ToUint8(ToUint8(nameSize - 1) - 1)
        manufCopied == ToUint8(ToUint8(manufDataSize - 1) - 1)
    IN  IF (a.nameLen < 0) /\ ~a.manufPtr
          THEN [ret |-> U_ERROR_COMMON_INVALID_PARAMETER, written |-> 0]
        ELSE IF totSize > a.advDataSize
          THEN [ret |-> U_ERROR_COMMON_INVALID_PARAMETER, written |-> 0]
        ELSE [ret |-> totSize,
              written |-> (IF a.nameLen >= 0 THEN 2 + nameCopied ELSE 0)
                          + (IF a.manufPtr THEN 2 + manufCopied ELSE 0)]

InitAdv ==
    /\ InitMain
    /\ mutexCreated
    /\ moduleType = [hA |-> "SARA_R5", hB |-> "SARA_U201"]
    /\ decIn = 0 /\ decFn = "none" /\ decOut = 0
    /\ \E n \in NameLens, m \in ManufArgs, size \in AdvDataSizes :
          adv = [pc |-> "call", nameLen |-> n, manufPtr |-> m.ptr,
                 manufDataSize |-> m.size, advDataSize |-> size,
                 written |-> 0, ret |-> 0]

\* The call returns.  Where it has stored more than advDataSize bytes
\* through pAdvData the behaviour is undefined: the call returns its
\* result, memory beyond the buffer overwritten, or the program ends.
uBleGapSetAdvData ==
    /\ adv.pc = "call"
    /\ LET r == AdvResult(adv)
       IN  \/ adv' = [adv EXCEPT !.pc = "done", !.ret = r.ret,
                                 !.written = r.written]
           \/ /\ r.written > adv.advDataSize
              /\ adv' = [adv EXCEPT !.pc = "fault", !.written = r.written]
    /\ UNCHANGED << shared, locals, ghosts, scratch, decIn, decFn, decOut >>

NextAdv == uBleGapSetAdvData

SpecAdv == InitAdv /\ [][NextAdv]_vars

(***************************************************************************)
(* The properties.                                                         *)
(***************************************************************************)
\* Thread t is inside the region guarded by gUCellPrivateMutex.
InCritical(t) == pc[t] \notin {"idle", "lock", "ret"}

\* Thread t's refresh of handle h has cleared the snapshot and has not yet
\* released the mutex.
Refreshing(t, h) ==
    /\ op[t] = "refresh" /\ handle[t] = h
    /\ pc[t] \in {"csq", "csqResp", "block", "ucged2", "ucged2Resp",
                  "ucged5", "ucged5Resp", "unlock"}

\* Thread t is about to read handle h's snapshot.
Reading(t, h) ==
    /\ pc[t] = "locked" /\ handle[t] = h
    /\ op[t] \in FieldGetters \cup {"getSnrDb"}

\* Thread t takes a step.
Stepped(t) == pc'[t] # pc[t]

\* The number of times cmd is in thread t's log.
Count(t, cmd) == Cardinality({i \in 1 .. Len(log[t]) : log[t][i] = cmd})

\* C1: the commands of two calls never interleave on the wire: no call
\* sends a command after another call sent one in between its own, a call
\* that has sent a command holds the mutex, and at most one thread at a
\* time is inside the region the mutex guards.
C1_NoInterleaving ==
    /\ ~interleaved
    /\ \A t \in Threads : HasSent(t) => mutexOwner = t
    /\ \A t, u \in Threads : (t # u) => ~(InCritical(t) /\ InCritical(u))

\* A refresh has sent AT+CSQ, slept and sent AT+UCGED? while another
\* thread waits for the mutex.
C1_Witness ==
    \E t, u \in Threads :
        /\ t # u /\ pc[u] = "lock"
        /\ op[t] = "refresh"
        /\ log[t] = << "CLEAR", "AT+CSQ", "BLOCK", "AT+UCGED?" >>

\* C2: a getter never reads a snapshot in the middle of a refresh: when a
\* getter reads handle h no refresh of h is between its clear and its
\* release of the mutex, and every change of a snapshot is made by the
\* thread that holds the mutex.
C2_NoTornRead ==
    /\ [](\A t \in Threads : \A h \in Handles :
            Reading(t, h) =>
              /\ lastRefresh[h].state # "running"
              /\ \A u \in Threads : ~Refreshing(u, h))
    /\ [][radioParameters' # radioParameters =>
            \E t \in Threads :
                mutexOwner = t /\ InCritical(t) /\ Stepped(t)]_vars

\* A refresh is half way (baseline written, the sleep not yet done) while
\* another thread waits for the mutex.
C2_Witness ==
    \E t, u \in Threads : \E h \in Handles :
        /\ t # u /\ pc[u] = "lock"
        /\ Refreshing(t, h) /\ pc[t] = "block"
        /\ radioParameters[h].rssiDbm # 0
        /\ radioParameters[h].rsrpDbm = 0

\* C3, as claimed: every call made while the mutex is NULL returns
\* U_ERROR_COMMON_NOT_INITIALISED.
C3_AllNotInitialised ==
    \A t \in Threads :
        (~mutexCreated /\ pc[t] = "ret") =>
            errorCode[t] = U_ERROR_COMMON_NOT_INITIALISED

\* C3, amended: a call made while the mutex is NULL returns at once,
\* without a command and with every snapshot as it was; it returns
\* U_ERROR_COMMON_NOT_INITIALISED, except that uCellInfoGetRssiDbm(),
\* uCellInfoGetRsrpDbm() and uCellInfoGetRsrqDb() return 0.
C3_Uninitialised ==
    ~mutexCreated =>
        /\ radioParameters = [h \in Handles |-> ClearedRadioParameters]
        /\ mutexOwner = 0
        /\ \A h \in Handles : atLock[h] = 0
        /\ \A t \in Threads :
              /\ ~InCritical(t)
              /\ log[t] = << >>
              /\ (pc[t] = "lock") => ENABLED NotInitialised(t)
              /\ (pc[t] = "ret") =>
                    errorCode[t] = IF op[t] \in ZeroGetters
                                     THEN 0
                                     ELSE U_ERROR_COMMON_NOT_INITIALISED

\* Both kinds of call have returned with the mutex NULL.
C3_Witness ==
    /\ ~mutexCreated
    /\ \E t, u \in Threads :
          /\ pc[t] = "ret" /\ op[t] = "getRssiDbm" /\ errorCode[t] = 0
          /\ pc[u] = "ret" /\ op[u] = "getImei"
          /\ errorCode[u] = U_ERROR_COMMON_NOT_INITIALISED

\* Thread t is in a refresh of a handle that resolves to no instance.
BadRefresh(t) ==
    InCritical(t) /\ op[t] = "refresh" /\ handle[t] \notin Handles

\* C4: a refresh of a handle that resolves to no instance returns
\* U_ERROR_COMMON_INVALID_PARAMETER, sends no command, does not sleep,
\* changes no snapshot and releases the mutex.
C4_InvalidHandle ==
    /\ [](\A t \in Threads :
            BadRefresh(t) =>
              /\ mutexOwner = t
              /\ log[t] = << >> /\ results[t] = << >>
              /\ \A h \in Handles : atLock[h] # t
              /\ (pc[t] = "unlock") =>
                    errorCode[t] = U_ERROR_COMMON_INVALID_PARAMETER)
    /\ [][\A t \in Threads :
            (BadRefresh(t) /\ Stepped(t)) =>
              /\ UNCHANGED << radioParameters, atLock, lastRefresh >>
              /\ (pc[t] = "locked") => (pc'[t] = "unlock")
              /\ (pc[t] = "unlock") =>
                    (pc'[t] = "idle" /\ mutexOwner' = 0)]_vars

\* A refresh of an unknown handle is about to return, the other instance
\* holding a reading.
C4_Witness ==
    \E t \in Threads :
        /\ BadRefresh(t) /\ pc[t] = "unlock"
        /\ \E h \in Handles : radioParameters[h].rssiDbm # 0

\* C5: a refresh of an instance that is not registered returns
\* U_CELL_ERROR_NOT_REGISTERED without a query, and after it every getter
\* of that handle returns the field's unknown value.
C5_NotRegistered ==
    \A t \in Threads : \A h \in Handles :
        /\ ( /\ op[t] = "refresh" /\ handle[t] = h /\ pc[t] = "unlock"
             /\ errorCode[t] = U_CELL_ERROR_NOT_REGISTERED )
              => ( /\ log[t] = << "CLEAR" >> /\ results[t] = << >>
                   /\ radioParameters[h] = ClearedRadioParameters )
        /\ ( /\ op[t] = "refresh" /\ handle[t] = h /\ pc[t] = "unlock"
             /\ log[t] = << "CLEAR" >> )
              => errorCode[t] = U_CELL_ERROR_NOT_REGISTERED
        /\ (lastRefresh[h] = [state |-> "done",
                              status |-> U_CELL_ERROR_NOT_REGISTERED])
              => /\ radioParameters[h] = ClearedRadioParameters
                 /\ ( /\ op[t] \in FieldGetters /\ handle[t] = h
                      /\ pc[t] = "unlock" )
                       => errorCode[t] = FieldOf(op[t], ClearedRadioParameters)

\* A getter returns the unknown value after a refresh that found the
\* instance not registered.
C5_Witness ==
    \E t \in Threads : \E h \in Handles :
        /\ lastRefresh[h].state = "done"
        /\ lastRefresh[h].status = U_CELL_ERROR_NOT_REGISTERED
        /\ op[t] = "getRxQual" /\ handle[t] = h /\ pc[t] = "unlock"
        /\ errorCode[t] = -1

\* C6, as claimed: when the AT+CSQ exchange of a refresh fails, its status
\* is what the refresh returns and nothing follows it: no sleep and no
\* further command.
C6_BaselineFailureReturned ==
    \A t \in Threads :
        ( /\ op[t] = "refresh"
          /\ Len(results[t]) >= 1
          /\ results[t][1] # 0 )
          => /\ pc[t] = "unlock"
             /\ errorCode[t] = results[t][1]
             /\ log[t] = << "CLEAR", "AT+CSQ" >>

\* C7, as claimed: a refresh of a valid handle that returns anything but
\* success leaves every field of the snapshot at its unknown value.
C7_FailureLeavesCleared ==
    \A t \in Threads : \A h \in Handles :
        ( /\ op[t] = "refresh" /\ handle[t] = h /\ pc[t] = "unlock"
          /\ errorCode[t] # 0 )
          => radioParameters[h] = ClearedRadioParameters

\* C8: a call that took the mutex releases it exactly once, when it
\* returns and on whatever path it returns; so every call that was made
\* returns, be it in a refresh or waiting for the mutex: the thread that
\* waits gets the mutex and the thread that has it gets to its end.
C8_LockReleased ==
    /\ [](\A t \in Threads : InCritical(t) <=> (mutexOwner = t))
    /\ [][\A t \in Threads :
            /\ (mutexOwner = t /\ mutexOwner' # t) =>
                  (pc[t] = "unlock" /\ pc'[t] = "idle" /\ mutexOwner' = 0)
            /\ (InCritical(t) /\ ~InCritical(t)') =>
                  (pc[t] = "unlock" /\ mutexOwner' = 0)]_vars
    /\ \A t \in Threads : (pc[t] # "idle") ~> (pc[t] = "idle")

\* All ten attempts to read the IMEI have failed and the call is about to
\* release the mutex, another thread waiting for it.
C8_Witness ==
    \E t, u \in Threads :
        /\ t # u /\ pc[u] = "lock"
        /\ op[t] = "getImei" /\ pc[t] = "unlock"
        /\ errorCode[t] = U_CELL_ERROR_AT
        /\ Len(valids[t]) = ImeiTries

\* C9: uCellInfoGetImei() tries at most ten times, one AT+CGSN each, stops
\* at the first answer that is 15 decimal digits and returns success with
\* it, and returns U_CELL_ERROR_AT exactly when ten answers were not.
C9_ImeiRetries ==
    \A t \in Threads :
        (op[t] = "getImei" /\ pc[t] \in {"imeiLoop", "imeiResp", "unlock"}
            /\ handle[t] \in Handles /\ arg[t] = "ok") =>
          LET n == Len(valids[t])
          IN  /\ n <= ImeiTries
              /\ Count(t, "AT+CGSN") = Len(log[t])
              /\ Len(log[t]) = IF pc[t] = "imeiResp" THEN n + 1 ELSE n
              /\ Len(log[t]) <= ImeiTries
              /\ \A i \in 1 .. n - 1 : ~valids[t][i]
              /\ (pc[t] # "imeiResp") =>
                    (errorCode[t] = 0 <=> (n >= 1 /\ valids[t][n]))
              /\ (errorCode[t] = 0) => (buf[t] = IMEI15)
              /\ (errorCode[t] # 0) => (errorCode[t] = U_CELL_ERROR_AT)
              /\ (pc[t] = "unlock") =>
                    (errorCode[t] = U_CELL_ERROR_AT <=>
                        (n = ImeiTries /\ \A i \in 1 .. n : ~valids[t][i]))

\* One answer that is not an IMEI, then the IMEI: success at the second
\* attempt, two commands sent.
C9_Witness ==
    \E t \in Threads :
        /\ op[t] = "getImei" /\ pc[t] = "unlock"
        /\ valids[t] = << FALSE, TRUE >>
        /\ log[t] = << "AT+CGSN", "AT+CGSN" >>
        /\ errorCode[t] = U_ERROR_COMMON_SUCCESS
        /\ buf[t] = IMEI15

\* C10: rsrpToDbm() of a code in 0 .. 97 is the code minus 141, which lies
\* in -141 .. -44; of any other code it is 0.
C10_RsrpToDbm ==
    (decFn = "rsrpToDbm") =>
        IF decIn \in 0 .. 97
          THEN decOut = decIn - 141 /\ decOut \in -141 .. -44
          ELSE decOut = 0

\* The last code of the valid range was decoded.
C10_Witness ==
    /\ decFn = "rsrpToDbm"
    /\ decIn = 97 /\ decOut = -44

\* C11: rsrqToDb() of a code in 0 .. 34 is (code - 40) / 2 rounded toward
\* zero and not less than -19, so it lies in -19 .. -3 (-19 for the codes 0
\* and 1, -3 for the code 34); of any other code it is 0.
C11_RsrqToDb ==
    (decFn = "rsrqToDb") =>
        IF decIn \in 0 .. 34
          THEN LET half == -((40 - decIn) \div 2)
               IN  /\ decOut = IF half < -19 THEN -19 ELSE half
                   /\ decOut \in -19 .. -3
                   /\ (decIn \in {0, 1}) => (decOut = -19)
                   /\ (decIn = 34) => (decOut = -3)
          ELSE decOut = 0

\* An odd code was decoded: (33 - 40) / 2 is -3, not -4.
C11_Witness ==
    /\ decFn = "rsrqToDb"
    /\ decIn = 33 /\ decOut = -3

\* Thread t's uCellInfoGetSnrDb(), called for an instance and with a place
\* for the result, is about to return.
SnrDone(t) ==
    /\ op[t] = "getSnrDb" /\ pc[t] = "unlock"
    /\ handle[t] \in Handles /\ arg[t] = "ok"

\* C12: uCellInfoGetSnrDb() on a valid handle and with a place for the
\* result: when rssiDbm or rsrpDbm is 0 it returns
\* U_CELL_ERROR_VALUE_OUT_OF_RANGE and writes nothing; when the two are
\* equal and not 0 it returns success and writes INT_MAX.
C12_SnrUnknownOrEqual ==
    \A t \in Threads :
        SnrDone(t) =>
          LET p == radioParameters[handle[t]]
          IN  /\ ((p.rssiDbm = 0) \/ (p.rsrpDbm = 0)) =>
                    /\ errorCode[t] = U_CELL_ERROR_VALUE_OUT_OF_RANGE
                    /\ ~outSet[t]
              /\ ((p.rssiDbm = p.rsrpDbm) /\ (p.rssiDbm # 0)) =>
                    /\ errorCode[t] = U_ERROR_COMMON_SUCCESS
                    /\ outSet[t] /\ outInt[t] = 2147483647

\* The two readings are -90 dBm and the result is INT_MAX.
C12_Witness ==
    \E t \in Threads :
        /\ SnrDone(t)
        /\ radioParameters[handle[t]].rssiDbm = -90
        /\ radioParameters[handle[t]].rsrpDbm = -90
        /\ errorCode[t] = U_ERROR_COMMON_SUCCESS
        /\ outSet[t] /\ outInt[t] = INT_MAX

TimeRead(t) ==
    /\ op[t] = "getTimeUtc" /\ pc[t] = "unlock"
    /\ results[t] = << U_ERROR_COMMON_SUCCESS >>

\* C14, as claimed: uCellInfoGetTimeUtc() returns the UTC time it decoded
\* from a string of 17 characters without a time zone: for
\* "21/08/05,12:30:00" the 1628166600 seconds from 1970-01-01T00:00:00Z to
\* 2021-08-05T12:30:00Z.
C14_TimeReturned ==
    \A t \in Threads :
        (TimeRead(t) /\ Len(buf[t]) = 17 /\ outSet[t] /\ outInt[t] >= 0) =>
            /\ errorCode[t] = outInt[t]
            /\ (buf[t] = CCLK_NO_TZ) => (errorCode[t] = 1628166600)

\* C15, as claimed: a time zone of +04 takes 3600 seconds off the time of
\* the calendar fields and one of -04 adds 3600 seconds to it; nothing is
\* taken off a string of 17 to 19 characters.
C15_TimeZoneSigned ==
    \A t \in Threads :
        (TimeRead(t) /\ outSet[t]) =>
            /\ (buf[t] = CCLK_PLUS) => (outInt[t] = 1628166600 - 3600)
            /\ (buf[t] = CCLK_MINUS) => (outInt[t] = 1628166600 + 3600)
            /\ (buf[t] = CCLK_NO_TZ) => (outInt[t] = 1628166600)

\* C16, as claimed: a string of fewer than 17 characters and a negative
\* time both make uCellInfoGetTimeUtc() return an error that is neither
\* success nor the error of a failed AT exchange.
C16_DecodeError ==
    \A t \in Threads :
        TimeRead(t) =>
            /\ (Len(buf[t]) < 17) =>
                  errorCode[t] \notin {U_ERROR_COMMON_SUCCESS, U_CELL_ERROR_AT}
            /\ (outSet[t] /\ outInt[t] < 0) =>
                  errorCode[t] \notin {U_ERROR_COMMON_SUCCESS, U_CELL_ERROR_AT}

\* C16, amended: a string of fewer than 17 characters makes
\* uCellInfoGetTimeUtc() return U_CELL_ERROR_AT, the error of a failed AT
\* exchange, without decoding anything; a negative time makes it return
\* U_ERROR_COMMON_UNKNOWN; success is returned only for a string of at
\* least 17 characters that gives a time of zero or more.
C16_TimeFailures ==
    \A t \in Threads :
        TimeRead(t) =>
            /\ (Len(buf[t]) < 17) =>
                  (errorCode[t] = U_CELL_ERROR_AT /\ ~outSet[t])
            /\ (outSet[t] /\ outInt[t] < 0) =>
                  errorCode[t] = U_ERROR_COMMON_UNKNOWN
            /\ (errorCode[t] = U_ERROR_COMMON_SUCCESS) =>
                  (Len(buf[t]) >= 17 /\ outSet[t] /\ outInt[t] >= 0)

\* A string of 14 characters was read and U_CELL_ERROR_AT is the result.
C16_Witness ==
    \E t \in Threads :
        /\ TimeRead(t)
        /\ buf[t] = CCLK_SHORT
        /\ errorCode[t] = U_CELL_ERROR_AT /\ ~outSet[t]

\* Thread t's refresh of an instance is about to return, AT+CSQ having been
\* its only exchange and uAtClientUnlock() having returned a timeout.
BaselineTimedOut(t) ==
    /\ op[t] = "refresh" /\ pc[t] = "unlock" /\ handle[t] \in Handles
    /\ results[t] = << U_ERROR_COMMON_TIMEOUT >>

RefreshSucceeded(h) ==
    lastRefresh[h] = [state |-> "done", status |-> U_ERROR_COMMON_SUCCESS]

\* Every getter of a field that is about to return for handle h returns
\* the field's unknown value.
GettersReturnUnknown(h) ==
    \A t \in Threads :
        (op[t] \in FieldGetters /\ handle[t] = h /\ pc[t] = "unlock") =>
            errorCode[t] = FieldOf(op[t], ClearedRadioParameters)

\* C18, as claimed: as long as no refresh of a handle has returned
\* success, every getter of a field returns the field's unknown value for
\* that handle: in a run in which no refresh of the handle ever succeeds,
\* the getters return nothing else.
C18_UnknownUntilSuccess ==
    \A h \in Handles : ([]~RefreshSucceeded(h)) => []GettersReturnUnknown(h)

\* Thread t is in a function with an output pointer that was called with
\* an unknown handle, a NULL pointer or a size of 0.
InvalidCall(t) ==
    /\ InCritical(t) /\ op[t] \in PointerOps
    /\ (handle[t] \notin Handles) \/ (arg[t] # "ok")

\* C19: a function with an output pointer that is called with an unknown
\* handle, a NULL pointer or a size of 0 returns
\* U_ERROR_COMMON_INVALID_PARAMETER, sends no command, writes nothing to
\* its output and releases the mutex.
C19_InvalidParameter ==
    /\ [](\A t \in Threads :
            InvalidCall(t) =>
              /\ pc[t] \in {"locked", "unlock"}
              /\ mutexOwner = t
              /\ log[t] = << >> /\ results[t] = << >>
              /\ \A h \in Handles : atLock[h] # t
              /\ buf[t] = << >> /\ ~outSet[t]
              /\ (pc[t] = "unlock") =>
                    errorCode[t] = U_ERROR_COMMON_INVALID_PARAMETER)
    /\ [][\A t \in Threads :
            (InvalidCall(t) /\ Stepped(t)) =>
              /\ UNCHANGED << radioParameters, atLock >>
              /\ (pc[t] = "locked") => (pc'[t] = "unlock")
              /\ (pc[t] = "unlock") =>
                    (pc'[t] = "idle" /\ mutexOwner' = 0)]_vars

\* uCellInfoGetIccidStr() for an instance, with a buffer of size 0, is
\* about to return.
C19_Witness ==
    \E t \in Threads :
        /\ op[t] = "getIccidStr" /\ pc[t] = "unlock"
        /\ handle[t] \in Handles /\ arg[t] = "zeroSize"
        /\ errorCode[t] = U_ERROR_COMMON_INVALID_PARAMETER
        /\ buf[t] = << >> /\ log[t] = << >>

\* C20: from its clear to its return, a refresh of an instance leaves in
\* the snapshot only unknown values and values of its own: the first step
\* of the refresh, before the registration is looked at and before any
\* query, sets every field to its unknown value, whatever it was; a
\* field that this call has had no successful AT+CSQ for (rssiDbm,
\* rxQual) or no AT+UCGED? answer for (rsrpDbm, rsrqDb, cellId, earfcn)
\* holds its unknown value.
C20_NoStaleValue ==
    /\ [](\A t \in Threads : \A h \in Handles :
            Refreshing(t, h) =>
              LET p == radioParameters[h]
              IN  /\ (results[t] = << >> \/ results[t][1] # 0) =>
                        (p.rssiDbm = 0 /\ p.rxQual = -1)
                  /\ (Len(results[t]) < 2) =>
                        /\ p.rsrpDbm = 0 /\ p.rsrqDb = 0
                        /\ p.cellId = -1 /\ p.earfcn = -1)
    /\ [][\A t \in Threads : \A h \in Handles :
            ( /\ pc[t] = "locked" /\ op[t] = "refresh" /\ handle[t] = h
              /\ Stepped(t) ) =>
                radioParameters'[h] =
                    [rssiDbm |-> 0, rsrpDbm |-> 0, rsrqDb |-> 0,
                     rxQual |-> -1, cellId |-> -1, earfcn |-> -1]]_vars

\* The refresh of a SARA-R4 outside EUTRAN is about to return: the values
\* of AT+CSQ and nothing else are in the snapshot.
C20_Witness ==
    \E t \in Threads : \E h \in Handles :
        /\ Refreshing(t, h) /\ pc[t] = "unlock"
        /\ log[t] = << "CLEAR", "AT+CSQ", "BLOCK" >>
        /\ results[t] = << U_ERROR_COMMON_SUCCESS >>
        /\ radioParameters[h] =
              [rssiDbm |-> -90, rsrpDbm |-> 0, rsrqDb |-> 0,
               rxQual |-> 3, cellId |-> -1, earfcn |-> -1]

\* The steps of a refresh of a registered instance, in their order.
RefreshSteps == << "CLEAR", "AT+CSQ", "BLOCK", "AT+UCGED?" >>

\* The module of handle h has a second query after AT+CSQ.
HasSecondQuery(h) ==
    moduleType[h] = "SARA_R5" \/ IsSaraR4(moduleType[h])

\* C21: the steps of a refresh of a registered instance come in the order
\* clear, AT+CSQ, sleep, AT+UCGED?, each at most once and the second query
\* in one of its two forms only (UCGED=2 on a SARA-R5, UCGED=5 on a
\* SARA-R4); a refresh that got to AT+CSQ has slept exactly once when it
\* returns if the module has a second query and not at all if it has
\* none; the mutex is held by the refresh before and after the sleep, no
\* other thread being inside the region the mutex guards.
C21_RefreshOrder ==
    /\ [](\A t \in Threads : \A h \in Handles :
            Refreshing(t, h) =>
              /\ mutexOwner = t
              /\ \A u \in Threads \ {t} : ~InCritical(u)
              /\ \E n \in 1 .. 4 : log[t] = SubSeq(RefreshSteps, 1, n)
              /\ (pc[t] \in {"ucged2", "ucged2Resp"}) =>
                    moduleType[h] = "SARA_R5"
              /\ (pc[t] \in {"ucged5", "ucged5Resp"}) =>
                    IsSaraR4(moduleType[h])
              /\ (pc[t] = "unlock" /\ Len(log[t]) >= 2) =>
                    Count(t, "BLOCK") = IF HasSecondQuery(h) THEN 1 ELSE 0
              /\ (Len(log[t]) = 4) => HasSecondQuery(h))
    /\ [][\A t \in Threads :
            (pc[t] = "block" /\ Stepped(t)) =>
              /\ mutexOwner = t /\ mutexOwner' = t
              /\ log'[t] = Append(log[t], "BLOCK")
              /\ \A u \in Threads \ {t} : ~InCritical(u)']_vars

\* A refresh whose AT+CSQ timed out is about to sleep while another thread
\* waits for the mutex.
C21_Witness ==
    \E t, u \in Threads :
        /\ t # u /\ pc[u] = "lock"
        /\ op[t] = "refresh" /\ pc[t] = "block"
        /\ log[t] = << "CLEAR", "AT+CSQ" >>
        /\ results[t] = << U_ERROR_COMMON_TIMEOUT >>

\* Thread t's refresh of a SARA-R4 is about to return without a second
\* query: the active RAT was found not to be EUTRAN.
R4OutsideEutran(t) ==
    /\ op[t] = "refresh" /\ pc[t] = "unlock"
    /\ handle[t] \in Handles /\ IsSaraR4(moduleType[handle[t]])
    /\ Len(log[t]) >= 2 /\ Count(t, "AT+UCGED?") = 0

\* C22: on a SARA-R4 whose active RAT is not EUTRAN the refresh sends
\* AT+CSQ, sleeps and sends nothing else; rsrpDbm, rsrqDb, cellId and earfcn
\* keep their unknown values, rssiDbm and rxQual are what AT+CSQ gave, and
\* the refresh returns success.  The step that finds the RAT either goes
\* on to the second query or ends the refresh with success, the snapshot
\* as it was.
C22_R4OutsideEutran ==
    /\ [](\A t \in Threads :
            R4OutsideEutran(t) =>
              LET p == radioParameters[handle[t]]
              IN  /\ errorCode[t] = U_ERROR_COMMON_SUCCESS
                  /\ log[t] = << "CLEAR", "AT+CSQ", "BLOCK" >>
                  /\ Len(results[t]) = 1
                  /\ p.rsrpDbm = 0 /\ p.rsrqDb = 0
                  /\ p.cellId = -1 /\ p.earfcn = -1
                  /\ (results[t][1] = 0) =>
                        (p.rssiDbm \in {0, -90} /\ p.rxQual \in {-1, 3}))
    /\ [][\A t \in Threads :
            ( /\ pc[t] = "block" /\ IsSaraR4(moduleType[handle[t]])
              /\ Stepped(t) ) =>
                /\ UNCHANGED << radioParameters, atLock >>
                /\ \/ pc'[t] = "ucged5" /\ errorCode'[t] = errorCode[t]
                   \/ pc'[t] = "unlock"
                        /\ errorCode'[t] = U_ERROR_COMMON_SUCCESS]_vars

\* The refresh of a SARA-R4 outside EUTRAN returns success with the two
\* values of AT+CSQ, another thread waiting for the mutex.
C22_Witness ==
    \E t, u \in Threads :
        /\ t # u /\ pc[u] = "lock"
        /\ R4OutsideEutran(t)
        /\ errorCode[t] = U_ERROR_COMMON_SUCCESS
        /\ radioParameters[handle[t]].rssiDbm = -90
        /\ radioParameters[handle[t]].rxQual = 3
        /\ radioParameters[handle[t]].rsrpDbm = 0

\* Thread t's refresh of a registered instance is past its AT+CSQ exchange.
BaselineDone(t) ==
    /\ op[t] = "refresh" /\ handle[t] \in Handles
    /\ pc[t] \in {"block", "ucged2", "ucged2Resp", "ucged5", "ucged5Resp",
                  "unlock"}
    /\ Len(results[t]) >= 1

\* C23: on a module with no second query (neither SARA-R5 nor SARA-R4) the
\* refresh ends with AT+CSQ: no sleep, no second command, and the status
\* of the AT+CSQ exchange is what it returns; and a refresh whose only
\* exchange was a successful AT+CSQ, the second query not being there for
\* the module or for its RAT, returns success.
C23_BaselineOnly ==
    \A t \in Threads :
        BaselineDone(t) =>
            /\ (~HasSecondQuery(handle[t])) =>
                  /\ pc[t] = "unlock"
                  /\ log[t] = << "CLEAR", "AT+CSQ" >>
                  /\ Len(results[t]) = 1
                  /\ errorCode[t] = results[t][1]
            /\ (pc[t] = "unlock" /\ results[t] = << U_ERROR_COMMON_SUCCESS >>)
                  => errorCode[t] = U_ERROR_COMMON_SUCCESS

\* The refresh of a SARA-U201 is about to return the success of AT+CSQ.
C23_Witness ==
    \E t \in Threads :
        /\ BaselineDone(t) /\ pc[t] = "unlock"
        /\ moduleType[handle[t]] = "SARA_U201"
        /\ log[t] = << "CLEAR", "AT+CSQ" >>
        /\ results[t] = << U_ERROR_COMMON_SUCCESS >>
        /\ errorCode[t] = U_ERROR_COMMON_SUCCESS

\* C24: after a successful AT+CSQ exchange that read x and y, rssiDbm is
\* entry x of the table for x in 0 .. 31 (the table has 32 entries that
\* grow strictly from -118 to -48) and is left at 0 for any other x;
\* rxQual is -1 for y = 99 and y for any other y.  After a failed
\* exchange rssiDbm and rxQual are as they were.  No other field is
\* written.
C24_CsqDecoding ==
    /\ Len(gRssiConvertLte) = 32
    /\ gRssiConvertLte[1] = -118 /\ gRssiConvertLte[32] = -48
    /\ \A i \in 1 .. 31 : gRssiConvertLte[i] < gRssiConvertLte[i + 1]
    /\ (decFn = "getRadioParamsCsq") =>
          LET p == radioParameters["hA"]
          IN  /\ IF results[1] = << U_ERROR_COMMON_SUCCESS >>
                   THEN /\ p.rssiDbm = IF decIn \in 0 .. 31
                                         THEN gRssiConvertLte[decIn + 1]
                                         ELSE 0
                        /\ p.rxQual = IF decOut = 99 THEN -1 ELSE decOut
                   ELSE p.rssiDbm = 0 /\ p.rxQual = -1
              /\ p.rsrpDbm = 0 /\ p.rsrqDb = 0
              /\ p.cellId = -1 /\ p.earfcn = -1

\* The last index of the table was read, with a second value of 99.
C24_Witness ==
    /\ decFn = "getRadioParamsCsq"
    /\ results[1] = << U_ERROR_COMMON_SUCCESS >>
    /\ decIn = 31 /\ decOut = 99
    /\ radioParameters["hA"].rssiDbm = -48
    /\ radioParameters["hA"].rxQual = -1

\* Integer v is the number of tenths rounded to the nearest integer, a
\* half going away from zero.
IsRoundedHalfAway(v, tenths) ==
    LET d == 10 * v - tenths
    IN  /\ d \in -5 .. 5
        /\ (d = 5) => (tenths > 0)
        /\ (d = -5) => (tenths < 0)

\* C25: getRadioParamsUcged5() stores the decimal value of +RSRP: in
\* rsrpDbm and that of +RSRQ: in rsrqDb, rounded to the nearest integer,
\* a half going away from zero (3.5 gives 4, -9.5 gives -10, -9.4 gives
\* -9); where uAtClientReadString() returned nothing or an error the
\* field keeps its unknown value 0.
C25_DecimalRounding ==
    LET p == radioParameters["hA"]
    IN  /\ (decFn = "getRadioParamsUcged5:RSRP") =>
              /\ (decOut > 0) => IsRoundedHalfAway(p.rsrpDbm, decIn)
              /\ (decOut <= 0) => (p.rsrpDbm = 0)
              /\ p.rsrqDb = 0
        /\ (decFn = "getRadioParamsUcged5:RSRQ") =>
              /\ (decOut > 0) => IsRoundedHalfAway(p.rsrqDb, decIn)
              /\ (decOut <= 0) => (p.rsrqDb = 0)
              /\ p.rsrpDbm = 0
        /\ (decFn = "getRadioParamsUcged5:RSRP" /\ decOut > 0) =>
              /\ (decIn = 35) => (p.rsrpDbm = 4)
              /\ (decIn = -95) => (p.rsrpDbm = -10)
              /\ (decIn = -94) => (p.rsrpDbm = -9)

\* -9.5 was read after +RSRP: and -10 is stored.
C25_Witness ==
    /\ decFn = "getRadioParamsUcged5:RSRP"
    /\ decOut > 0 /\ decIn = -95
    /\ radioParameters["hA"].rsrpDbm = -10

\* C26: the snapshot of an instance is changed by nothing but a step of a
\* refresh of that instance: a refresh of one handle leaves the snapshot
\* of every other instance as it is, and the getters of a field,
\* uCellInfoGetSnrDb(), the readers of strings and uCellInfoGetTimeUtc()
\* change no snapshot.
C26_Frame ==
    [][\A h \in Handles :
          (radioParameters'[h] # radioParameters[h]) =>
              \E t \in Threads :
                  /\ op[t] = "refresh" /\ handle[t] = h
                  /\ mutexOwner = t /\ Stepped(t)
                  /\ \A g \in Handles \ {h} :
                        radioParameters'[g] = radioParameters[g]]_vars

\* A refresh has just cleared the snapshot of its instance, the other
\* instance holding the values of an earlier refresh.
C26_Witness ==
    \E t \in Threads : \E h, g \in Handles :
        /\ h # g
        /\ Refreshing(t, h) /\ pc[t] = "csq"
        /\ radioParameters[h] = ClearedRadioParameters
        /\ lastRefresh[g].state = "done"
        /\ radioParameters[g].rssiDbm = -90

\* Where a thread is between uAtClientLock() and uAtClientUnlock().
ExchangePcs == {"csqResp", "ucged2Resp", "ucged5Resp", "imeiResp",
                "strResp", "timeResp"}

\* C27: the lock of an AT client is held only by the thread that holds
\* the mutex, for its own handle and only between the command and the end
\* of the response of one exchange: not during the sleep, not between two
\* attempts to read the IMEI, not when the mutex is released; it is taken
\* when free and released by the thread that took it, the mutex held
\* before and after.  So no thread waits for the lock of an AT client,
\* and a thread in a call either can take a step or waits for the mutex
\* whose holder can take a step: no deadlock.
C27_LockNesting ==
    /\ [](\A h \in Handles :
            (atLock[h] # 0) =>
              /\ mutexOwner = atLock[h]
              /\ handle[atLock[h]] = h
              /\ pc[atLock[h]] \in ExchangePcs)
    /\ [](\A t \in Threads :
            /\ (pc[t] \in ExchangePcs) => atLock[handle[t]] = t
            /\ (pc[t] \notin ExchangePcs) =>
                  \A h \in Handles : atLock[h] = 0 \/ mutexOwner # t
            /\ (pc[t] \notin {"idle", "lock"}) => ENABLED Proceed(t)
            /\ (pc[t] = "lock" /\ ~mutexCreated) => ENABLED Proceed(t)
            /\ (pc[t] = "lock" /\ mutexCreated) =>
                  \/ ENABLED MutexLock(t)
                  \/ mutexOwner \in Threads \ {t}
                        /\ ENABLED Proceed(mutexOwner))
    /\ [][\A h \in Handles :
            /\ (atLock'[h] # atLock[h]) =>
                  /\ mutexOwner # 0 /\ mutexOwner' = mutexOwner
                  /\ handle[mutexOwner] = h
                  /\ \/ atLock[h] = 0 /\ atLock'[h] = mutexOwner
                          /\ Len(log'[mutexOwner]) = Len(log[mutexOwner]) + 1
                     \/ atLock[h] = mutexOwner /\ atLock'[h] = 0
            /\ (mutexOwner' # mutexOwner) =>
                  (atLock[h] = 0 /\ atLock'[h] = 0)]_vars

\* The second attempt to read the IMEI is under way, the lock of the AT
\* client taken again, while another thread waits for the mutex.
C27_Witness ==
    \E t, u \in Threads :
        /\ t # u /\ pc[u] = "lock"
        /\ op[t] = "getImei" /\ pc[t] = "imeiResp"
        /\ Len(valids[t]) = 1
        /\ atLock[handle[t]] = t /\ mutexOwner = t

\* Thread t's refresh of a registered instance whose module has a second
\* query is about to return.
SecondStepDone(t) ==
    /\ op[t] = "refresh" /\ pc[t] = "unlock"
    /\ handle[t] \in Handles /\ HasSecondQuery(handle[t])
    /\ Len(log[t]) >= 2

\* C28: the refresh of a registered SARA-R5 returns what the AT+UCGED?
\* exchange returned; that of a registered SARA-R4 returns what the
\* AT+UCGED? exchange returned if there was one (EUTRAN) and success if
\* there was none; in all of this whatever the AT+CSQ exchange returned.
C28_LastStepDecides ==
    \A t \in Threads :
        SecondStepDone(t) =>
            /\ Len(results[t]) \in {1, 2}
            /\ (moduleType[handle[t]] = "SARA_R5") => (Len(results[t]) = 2)
            /\ (Len(results[t]) = 2) =>
                  /\ Count(t, "AT+UCGED?") = 1
                  /\ errorCode[t] = results[t][2]
            /\ (Len(results[t]) = 1) =>
                  /\ Count(t, "AT+UCGED?") = 0
                  /\ errorCode[t] = U_ERROR_COMMON_SUCCESS

\* The refresh of a SARA-R5 is about to return success, AT+CSQ having
\* timed out and AT+UCGED? having succeeded.
C28_Witness ==
    \E t \in Threads :
        /\ SecondStepDone(t)
        /\ moduleType[handle[t]] = "SARA_R5"
        /\ results[t] = << U_ERROR_COMMON_TIMEOUT, U_ERROR_COMMON_SUCCESS >>
        /\ errorCode[t] = U_ERROR_COMMON_SUCCESS

\* C29: called for a handle that resolves to no instance,
\* uCellInfoGetRssiDbm(), uCellInfoGetRsrpDbm() and uCellInfoGetRsrqDb()
\* return 0, which is also what they return for an unknown reading, and
\* uCellInfoGetRxQual(), uCellInfoGetCellId() and uCellInfoGetEarfcn()
\* return U_ERROR_COMMON_INVALID_PARAMETER; called while the mutex is
\* NULL, the first three return 0 and the other three
\* U_ERROR_COMMON_NOT_INITIALISED.
C29_GettersOnBadCall ==
    \A t \in Threads :
        (op[t] \in FieldGetters) =>
            /\ (pc[t] = "unlock" /\ handle[t] \notin Handles) =>
                  IF op[t] \in {"getRssiDbm", "getRsrpDbm", "getRsrqDb"}
                    THEN /\ errorCode[t] = 0
                         /\ errorCode[t] = FieldOf(op[t], ClearedRadioParameters)
                    ELSE errorCode[t] = U_ERROR_COMMON_INVALID_PARAMETER
            /\ (pc[t] = "ret") =>
                  /\ ~mutexCreated
                  /\ IF op[t] \in {"getRssiDbm", "getRsrpDbm", "getRsrqDb"}
                       THEN errorCode[t] = 0
                       ELSE errorCode[t] = U_ERROR_COMMON_NOT_INITIALISED

\* uCellInfoGetRsrpDbm() is about to return 0 for an unknown handle while
\* an instance holds a reading.
C29_Witness ==
    \E t \in Threads :
        /\ op[t] = "getRsrpDbm" /\ pc[t] = "unlock"
        /\ handle[t] = BadHandle /\ errorCode[t] = 0
        /\ \E h \in Handles : radioParameters[h].rsrpDbm # 0

\* C30, as claimed: uBleGapSetAdvData() stores at most advDataSize bytes
\* through pAdvData and returns the number of bytes it stored, for every
\* length of the name and every manufDataSize; it returns
\* U_ERROR_COMMON_INVALID_PARAMETER, nothing stored, when pName and
\* pManufData are both NULL and when the size it computed is more than
\* advDataSize.
C30_AdvDataBounded ==
    /\ adv.pc # "fault"
    /\ (adv.pc = "done") =>
          /\ adv.written <= adv.advDataSize
          /\ (adv.ret >= 0) => (adv.ret = adv.written)
          /\ (adv.ret < 0) =>
                /\ adv.ret = U_ERROR_COMMON_INVALID_PARAMETER
                /\ adv.written = 0
          /\ (adv.nameLen < 0 /\ ~adv.manufPtr) =>
                adv.ret = U_ERROR_COMMON_INVALID_PARAMETER

=============================================================================
